---- MODULE Spec2Model ----
(***************************************************************************)
(* A model of the metrics-aggregation core of                              *)
(* lambdacollector/collector/collectors/metrics_calculator.py:             *)
(* the MetricsAccumulator (reset, add_collected_region, add_resource and   *)
(* its type-specific processors, get_metrics), the helpers _safe_pct,       *)
(* _sanitize_flat_key and flatten_metric, and save_metrics_to_dynamodb.     *)
(*                                                                         *)
(* A Python value is a record [k, b, s, l]: its kind and, by kind, its     *)
(* boolean, its characters or its elements.  A Python string is a sequence *)
(* of one-character strings, so that strip(), lower() and json.loads() are *)
(* computed character by character.  A resource record and a health bucket *)
(* are TLA+ functions whose DOMAIN is the set of keys present; every other *)
(* dict is the sequence of its entries, in insertion order.                *)
(***************************************************************************)
EXTENDS Integers, Sequences, FiniteSets, TLC

\* ------------------------------------------------------------------------
\* Bounds of the model
\* ------------------------------------------------------------------------

\* add_resource / add_collected_region calls per run of the accumulator
MaxCalls == 3
\* largest numerator drawn for _safe_pct
MaxNumer == 24
\* largest denominator drawn for _safe_pct
MaxDenom == 40
\* longest key drawn for _sanitize_flat_key
MaxKeyLen == 3
\* longest metrics_tables list drawn for save_metrics_to_dynamodb
MaxTables == 3

\* ------------------------------------------------------------------------
\* Python values
\* ------------------------------------------------------------------------

None == [k |-> "none", b |-> FALSE, s |-> <<>>, l |-> <<>>]
Bool(b) == [k |-> "bool", b |-> b, s |-> <<>>, l |-> <<>>]
Str(s) == [k |-> "str", b |-> FALSE, s |-> s, l |-> <<>>]
List(l) == [k |-> "list", b |-> FALSE, s |-> <<>>, l |-> l]
\* a dict value: the sequence of its entries [key, val]
Dict(l) == [k |-> "dict", b |-> FALSE, s |-> <<>>, l |-> l]

\* the characters of a literal, and the str value it denotes
Chars(literal) == [i \in 1..Len(literal) |-> SubSeq(literal, i, i)]

Text(literal) == Str(Chars(literal))

\* one entry of a dict
Entry(key, val) == [key |-> key, val |-> val]

IsNone(x) == x.k = "none"
IsBool(x) == x.k = "bool"
IsStr(x) == x.k = "str"
IsList(x) == x.k = "list"
IsDict(x) == x.k = "dict"

\* str(n) of an integer: its decimal digits
RECURSIVE Decimal(_)
Decimal(n) ==
    IF n < 0 THEN <<"-">> \o Decimal(0 - n)
    ELSE IF n < 10 THEN <<SubSeq(<<"0","1","2","3","4","5","6","7","8","9">>, n + 1, n + 1)[1]>>
    ELSE Decimal(n \div 10) \o Decimal(n % 10)

\* an int value, held as its decimal digits
PyInt(n) == [k |-> "int", b |-> FALSE, s |-> Decimal(n), l |-> <<>>]
IsInt(x) == x.k = "int"

\* Python truthiness: None, False, '', [] and {} are falsy.
Truthy(x) ==
    CASE x.k = "none" -> FALSE
      [] x.k = "bool" -> x.b
      [] x.k = "str" -> Len(x.s) > 0
      [] x.k = "list" -> Len(x.l) > 0
      [] x.k = "dict" -> Len(x.l) > 0
      [] x.k = "int" -> x.s # <<"0">>

\* a or b
Or(a, b) == IF Truthy(a) THEN a ELSE b

\* d.get(key) and d.get(key, default) on a dict with code-given keys
Get(d, key) == IF key \in DOMAIN d THEN d[key] ELSE None
GetDefault(d, key, default) == IF key \in DOMAIN d THEN d[key] ELSE default

\* A dict keyed by data keeps its insertion order: it is the sequence of its
\* entries [key, val], in the order in which the keys were first set.
EmptyDict == <<>>

HasKey(d, key) == \E i \in 1..Len(d) : d[i].key = key

IndexOf(d, key) == CHOOSE i \in 1..Len(d) : d[i].key = key

\* d.get(key, default)
Lookup(d, key, default) ==
    IF HasKey(d, key) THEN d[IndexOf(d, key)].val ELSE default

\* d[key] = val that leaves a key already set at its first value.
SetItem_KeepsFirst(d, key, val) ==
    IF HasKey(d, key) THEN d ELSE Append(d, [key |-> key, val |-> val])

\* d[key] = val
SetItem(d, key, val) ==
    IF HasKey(d, key)
    THEN [d EXCEPT ![IndexOf(d, key)].val = val]
    ELSE Append(d, [key |-> key, val |-> val])

\* Python computes a value where it is assigned, not where it is next read:
\* `then`, with the dict `value` computed beforehand.
Evaluated(value, then) == IF DOMAIN value = DOMAIN value THEN then ELSE then

\* d[key] += 1 on a defaultdict(int)
Incr(d, key) == SetItem(d, key, Lookup(d, key, 0) + 1)

\* sum(d.values())
RECURSIVE SumValues(_)
SumValues(d) ==
    IF d = <<>> THEN 0 ELSE Head(d).val + SumValues(Tail(d))

\* ------------------------------------------------------------------------
\* Python strings: str.lower(), str.strip()
\* ------------------------------------------------------------------------

Upper == <<"A","B","C","D","E","F","G","H","I","J","K","L","M",
           "N","O","P","Q","R","S","T","U","V","W","X","Y","Z">>
Lower == <<"a","b","c","d","e","f","g","h","i","j","k","l","m",
           "n","o","p","q","r","s","t","u","v","w","x","y","z">>

LowerChar(ch) ==
    IF \E i \in 1..Len(Upper) : Upper[i] = ch
    THEN Lower[CHOOSE i \in 1..Len(Upper) : Upper[i] = ch]
    ELSE ch

\* s.lower()
RECURSIVE StrLower(_)
StrLower(s) ==
    IF s = <<>> THEN <<>> ELSE <<LowerChar(Head(s))>> \o StrLower(Tail(s))

IsSpace(ch) == ch = " "

RECURSIVE LStrip(_)
LStrip(s) ==
    IF Len(s) > 0 /\ IsSpace(Head(s)) THEN LStrip(Tail(s)) ELSE s

RECURSIVE RStrip(_)
RStrip(s) ==
    IF Len(s) > 0 /\ IsSpace(s[Len(s)])
    THEN RStrip(SubSeq(s, 1, Len(s) - 1))
    ELSE s

\* s.strip()
StrStrip(s) == RStrip(LStrip(s))

\* ------------------------------------------------------------------------
\* IEEE-754 binary64 arithmetic, as far as _safe_pct needs it.
\* A positive double is [hi, mid, lo, e]: a 53-bit mantissa in three limbs
\* of base 2^18 (hi holds its top 17 bits, 2^16 <= hi < 2^17) and an
\* exponent, of value (hi * 2^36 + mid * 2^18 + lo) * 2^e.  Zero has hi = 0.
\* Every operation rounds to nearest, ties to even, as the hardware does.
\* ------------------------------------------------------------------------

LimbBits == 18
Limb == 2 ^ LimbBits
HiBits == 17

FloatZero == [hi |-> 0, mid |-> 0, lo |-> 0, e |-> 0]

\* Scale N/D by powers of two until D <= N < 2D; k counts the scaling, so
\* that 2^k <= (the original N/D) < 2^(k+1).
RECURSIVE Normalize(_, _, _)
Normalize(N, D, k) ==
    IF N < D THEN Normalize(2 * N, D, k - 1)
    ELSE IF N >= 2 * D THEN Normalize(N, 2 * D, k + 1)
    ELSE [N |-> N, D |-> D, k |-> k]

\* The mantissa (hi, mid, lo), exact so far, rounded by how the discarded
\* part compares to half a unit in the last place ("lt", "eq", "gt").
RoundHalfEven(hi, mid, lo, e, cmp) ==
    LET up == cmp = "gt" \/ (cmp = "eq" /\ lo % 2 = 1)
        lo1 == IF up THEN lo + 1 ELSE lo
        mid1 == mid + lo1 \div Limb
        hi1 == hi + mid1 \div Limb
    IN  IF hi1 = 2 ^ HiBits
        THEN [hi |-> 2 ^ (HiBits - 1), mid |-> 0, lo |-> 0, e |-> e + 1]
        ELSE [hi |-> hi1, mid |-> mid1 % Limb, lo |-> lo1 % Limb, e |-> e]

\* numer / denom (true division) for ints numer >= 0, 0 < denom < 2^13:
\* the 53 leading bits of the quotient by long division, then rounding on
\* the remainder.
TrueDiv(n, d) ==
    IF n = 0 THEN FloatZero
    ELSE LET k == Normalize(n, d, 0).k
             s == 52 - k
             top == n * 2 ^ (s - 2 * LimbBits)
             hi == top \div d
             r2 == top % d
             mid == (r2 * Limb) \div d
             r1 == (r2 * Limb) % d
             lo == (r1 * Limb) \div d
             r0 == (r1 * Limb) % d
             cmp == IF 2 * r0 > d THEN "gt"
                    ELSE IF 2 * r0 = d THEN "eq" ELSE "lt"
         IN  RoundHalfEven(hi, mid, lo, 0 - s, cmp)

\* x * c for a double x and an int 0 < c < 2^7: the exact product, shifted
\* right until 53 bits are left, then rounding on the bits shifted out.
FloatMul(x, c) ==
    IF x.hi = 0 THEN FloatZero
    ELSE LET p0 == x.lo * c
             p1 == x.mid * c + p0 \div Limb
             p2 == x.hi * c + p1 \div Limb
             l0 == p0 % Limb
             l1 == p1 % Limb
             t == CHOOSE j \in 0..7 : 2 ^ (HiBits - 1 + j) <= p2 /\ p2 < 2 ^ (HiBits + j)
             hi == p2 \div 2 ^ t
             mid == ((p2 % 2 ^ t) * Limb + l1) \div 2 ^ t
             lo == ((l1 % 2 ^ t) * Limb + l0) \div 2 ^ t
             out == l0 % 2 ^ t
             cmp == IF t = 0 \/ 2 * out < 2 ^ t THEN "lt"
                    ELSE IF 2 * out = 2 ^ t THEN "eq" ELSE "gt"
         IN  RoundHalfEven(hi, mid, lo, x.e + t, cmp)

\* int(round(x)) for a double 0 <= x < 2^17: the nearest int, ties to even.
\* f is the number of fraction bits of the mantissa.
FloatRound(x) ==
    IF x.hi = 0 THEN 0
    ELSE LET f == 0 - x.e
         IN  IF f > 2 * LimbBits + HiBits THEN 0
             ELSE LET int == x.hi \div 2 ^ (f - 2 * LimbBits)
                      frac == x.hi % 2 ^ (f - 2 * LimbBits)
                      rest == x.mid # 0 \/ x.lo # 0
                      cmp == IF f = 2 * LimbBits
                             THEN (IF 2 * x.mid > Limb THEN "gt"
                                   ELSE IF 2 * x.mid < Limb THEN "lt"
                                   ELSE IF x.lo # 0 THEN "gt" ELSE "eq")
                             ELSE (IF 2 * frac > 2 ^ (f - 2 * LimbBits) THEN "gt"
                                   ELSE IF 2 * frac < 2 ^ (f - 2 * LimbBits) THEN "lt"
                                   ELSE IF rest THEN "gt" ELSE "eq")
                  IN  IF cmp = "gt" \/ (cmp = "eq" /\ int % 2 = 1)
                      THEN int + 1
                      ELSE int

\* ------------------------------------------------------------------------
\* _safe_pct
\* ------------------------------------------------------------------------

_safe_pct(numer, denom) ==
    IF denom = 0 THEN 0
    ELSE FloatRound(FloatMul(TrueDiv(numer, denom), 100))

\* ------------------------------------------------------------------------
\* String literals of the code
\* ------------------------------------------------------------------------

\* resource types dispatched on by add_resource and _process_network_resource
T_EC2Instance == Str(<<"E","C","2","I","n","s","t","a","n","c","e">>)
T_RDSInstance == Str(<<"R","D","S","I","n","s","t","a","n","c","e">>)
T_S3Bucket == Str(<<"S","3","B","u","c","k","e","t">>)
T_EBSVolume == Str(<<"E","B","S","V","o","l","u","m","e">>)
T_ElasticIP == Str(<<"E","l","a","s","t","i","c","I","P">>)
T_SecurityGroup == Str(<<"S","e","c","u","r","i","t","y","G","r","o","u","p">>)
T_EBSSnapshot == Str(<<"E","B","S","S","n","a","p","s","h","o","t">>)
T_AMI == Str(<<"A","M","I">>)
T_VPC == Str(<<"V","P","C">>)
T_Subnet == Str(<<"S","u","b","n","e","t">>)
T_EFSFileSystem == Str(<<"E","F","S","F","i","l","e","S","y","s","t","e","m">>)
T_FSxFileSystem == Str(<<"F","S","x","F","i","l","e","S","y","s","t","e","m">>)
T_BackupPlan == Str(<<"B","a","c","k","u","p","P","l","a","n">>)
T_BackupVault == Str(<<"B","a","c","k","u","p","V","a","u","l","t">>)
T_BackupRecoveryPoint == Str(<<"B","a","c","k","u","p","R","e","c","o","v","e","r","y","P","o","i","n","t">>)
T_DirectConnectConnection == Str(<<"D","i","r","e","c","t","C","o","n","n","e","c","t","C","o","n","n","e","c","t","i","o","n">>)
T_DirectConnectVirtualInterface == Str(<<"D","i","r","e","c","t","C","o","n","n","e","c","t","V","i","r","t","u","a","l","I","n","t","e","r","f","a","c","e">>)
T_VPNConnection == Str(<<"V","P","N","C","o","n","n","e","c","t","i","o","n">>)
T_TransitGateway == Str(<<"T","r","a","n","s","i","t","G","a","t","e","w","a","y">>)

\* literals the classification compares against
s_empty == Str(<<>>)
s_none == Str(<<"n","o","n","e">>)
s_null == Str(<<"n","u","l","l">>)
s_brackets == Str(<<"[","]">>)
s_global == Str(<<"g","l","o","b","a","l">>)
s_available == Str(<<"a","v","a","i","l","a","b","l","e">>)
s_up == Str(<<"u","p">>)
s_unknown == Str(<<"u","n","k","n","o","w","n">>)
s_Unknown == Str(<<"U","n","k","n","o","w","n">>)
s_running == Str(<<"r","u","n","n","i","n","g">>)
s_stopped == Str(<<"s","t","o","p","p","e","d">>)
s_connected == Str(<<"c","o","n","n","e","c","t","e","d">>)
s_online == Str(<<"o","n","l","i","n","e">>)
s_notinstalled == Str(<<"n","o","t","i","n","s","t","a","l","l","e","d">>)
s_compliant == Str(<<"c","o","m","p","l","i","a","n","t">>)
s_noncompliant == Str(<<"n","o","n","c","o","m","p","l","i","a","n","t">>)
s_non_compliant == Str(<<"n","o","n","_","c","o","m","p","l","i","a","n","t">>)
s_in_use_hyphen == Str(<<"i","n","-","u","s","e">>)
s_in_use == Str(<<"i","n","_","u","s","e">>)
s_True == Str(<<"T","r","u","e">>)
s_False == Str(<<"F","a","l","s","e">>)

\* ------------------------------------------------------------------------
\* json.loads, for the JSON texts the model feeds: null, true, false,
\* unsigned integers, strings without escapes, lists and objects, with
\* spaces between tokens.  The result is [ok, next, kind, len]: whether the
\* text parsed, the position after the value, the kind of the value and,
\* for a list, its number of elements.
\* ------------------------------------------------------------------------

Digits == {"0","1","2","3","4","5","6","7","8","9"}

ParseFail == [ok |-> FALSE, next |-> 0, kind |-> "", len |-> 0]
Parsed(next, kind, len) == [ok |-> TRUE, next |-> next, kind |-> kind, len |-> len]

RECURSIVE SkipSpaces(_, _)
SkipSpaces(s, i) ==
    IF i <= Len(s) /\ IsSpace(s[i]) THEN SkipSpaces(s, i + 1) ELSE i

StartsWith(s, i, word) ==
    /\ i + Len(word) - 1 <= Len(s)
    /\ SubSeq(s, i, i + Len(word) - 1) = word

RECURSIVE SkipDigits(_, _)
SkipDigits(s, i) ==
    IF i <= Len(s) /\ s[i] \in Digits THEN SkipDigits(s, i + 1) ELSE i

\* an unsigned integer at i: no leading zero
ParseNumber(s, i) ==
    IF s[i] = "0" THEN Parsed(i + 1, "int", 0)
    ELSE Parsed(SkipDigits(s, i), "int", 0)

\* a string at i (s[i] is the opening quote)
ParseString(s, i) ==
    IF \E j \in (i + 1)..Len(s) : s[j] = "\""
    THEN LET j == CHOOSE x \in (i + 1)..Len(s) :
                      /\ s[x] = "\""
                      /\ \A y \in (i + 1)..(x - 1) : s[y] # "\""
         IN  IF \E y \in (i + 1)..(j - 1) : s[y] = "\\"
             THEN ParseFail
             ELSE Parsed(j + 1, "str", 0)
    ELSE ParseFail

RECURSIVE ParseValue(_, _)
RECURSIVE ParseElements(_, _, _)
RECURSIVE ParseMembers(_, _)

\* the value starting at i
ParseValue(s, i) ==
    IF i > Len(s) THEN ParseFail
    ELSE IF StartsWith(s, i, <<"n","u","l","l">>) THEN Parsed(i + 4, "null", 0)
    ELSE IF StartsWith(s, i, <<"t","r","u","e">>) THEN Parsed(i + 4, "bool", 0)
    ELSE IF StartsWith(s, i, <<"f","a","l","s","e">>) THEN Parsed(i + 5, "bool", 0)
    ELSE IF s[i] \in Digits THEN ParseNumber(s, i)
    ELSE IF s[i] = "\"" THEN ParseString(s, i)
    ELSE IF s[i] = "["
         THEN LET j == SkipSpaces(s, i + 1)
              IN  IF j <= Len(s) /\ s[j] = "]"
                  THEN Parsed(j + 1, "list", 0)
                  ELSE ParseElements(s, j, 0)
    ELSE IF s[i] = "{"
         THEN LET j == SkipSpaces(s, i + 1)
              IN  IF j <= Len(s) /\ s[j] = "}"
                  THEN Parsed(j + 1, "dict", 0)
                  ELSE ParseMembers(s, j)
    ELSE ParseFail

\* the elements of a list from i on, `count` of them already read
ParseElements(s, i, count) ==
    LET el == ParseValue(s, i)
        j == SkipSpaces(s, el.next)
    IN  IF ~el.ok \/ j > Len(s) THEN ParseFail
        ELSE IF s[j] = "]" THEN Parsed(j + 1, "list", count + 1)
        ELSE IF s[j] = "," THEN ParseElements(s, SkipSpaces(s, j + 1), count + 1)
        ELSE ParseFail

\* the members of an object from i on
ParseMembers(s, i) ==
    IF i > Len(s) \/ s[i] # "\"" THEN ParseFail
    ELSE LET name == ParseString(s, i)
             c == SkipSpaces(s, name.next)
         IN  IF ~name.ok \/ c > Len(s) \/ s[c] # ":" THEN ParseFail
             ELSE LET el == ParseValue(s, SkipSpaces(s, c + 1))
                      j == SkipSpaces(s, el.next)
                  IN  IF ~el.ok \/ j > Len(s) THEN ParseFail
                      ELSE IF s[j] = "}" THEN Parsed(j + 1, "dict", 0)
                      ELSE IF s[j] = "," THEN ParseMembers(s, SkipSpaces(s, j + 1))
                      ELSE ParseFail

\* json.loads(s): the whole text must be one value
JsonLoads(s) ==
    LET r == ParseValue(s, SkipSpaces(s, 1))
    IN  IF r.ok /\ SkipSpaces(s, r.next) = Len(s) + 1 THEN r ELSE ParseFail

\* ------------------------------------------------------------------------
\* MetricsAccumulator: construction and reset
\* ------------------------------------------------------------------------

\* The state reset() leaves behind; __init__ only calls reset().
reset ==
    [ resource_counts |-> EmptyDict,
      account_counts |-> EmptyDict,
      region_counts |-> EmptyDict,
      account_names |-> EmptyDict,
      regions_collected |-> {},
      ec2_states |-> EmptyDict,
      ec2_health |-> EmptyDict,
      ec2_cw_memory |-> 0,
      ec2_cw_disk |-> 0,
      ec2_cw_both |-> 0,
      ec2_ssm_connected |-> 0,
      ec2_ssm_notconnected |-> 0,
      ec2_ssm_notinstalled |-> 0,
      ec2_total |-> 0,
      ec2_running |-> 0,
      ec2_stopped |-> 0,
      ec2_patch_compliant |-> 0,
      ec2_patch_noncompliant |-> 0,
      ec2_patch_unknown |-> 0,
      rds_total |-> 0,
      rds_available |-> 0,
      rds_engines |-> EmptyDict,
      rds_multiaz |-> 0,
      rds_performance_insights |-> 0,
      s3_total |-> 0,
      s3_with_lifecycle |-> 0,
      efs_total |-> 0,
      fsx_total |-> 0,
      backup_plans |-> 0,
      backup_vaults |-> 0,
      backup_recovery_points |-> 0,
      sg_total |-> 0,
      sg_with_exposed_ports |-> 0,
      vpc_total |-> 0,
      subnet_total |-> 0,
      network_health |->
          [ directConnectConnections |-> [total |-> 0, healthy |-> 0],
            directConnectVirtualInterfaces |-> [total |-> 0, healthy |-> 0],
            vpnConnections |-> [total |-> 0, healthy |-> 0],
            transitGateways |-> [total |-> 0, healthy |-> 0] ],
      ebs_unattached |-> 0,
      eip_unassociated |-> 0,
      snapshots_orphaned |-> 0,
      _seen_ebs |-> {} ]

\* ------------------------------------------------------------------------
\* MetricsAccumulator: helpers
\* ------------------------------------------------------------------------

\* str(value) for the values the model feeds: strings, booleans and ints
PyStr(value) ==
    CASE IsStr(value) -> value
      [] IsBool(value) -> IF value.b THEN s_True ELSE s_False
      [] IsInt(value) -> Str(value.s)

_normalize_state(value) ==
    IF IsNone(value) THEN None
    ELSE LET normalized == Str(StrLower(StrStrip(PyStr(value).s)))
         IN  Or(normalized, None)

\* A list parsed from JSON text is kept as its elements' number: the callers
\* only take its length.
ParsedList(n) == List([i \in 1..n |-> None])

_as_list_or_none(v) ==
    IF IsNone(v) THEN None
    ELSE IF IsStr(v)
         THEN LET s == StrStrip(v.s)
              IN  IF Str(StrLower(s)) \in {s_empty, s_none, s_null, s_brackets}
                  THEN List(<<>>)
                  ELSE LET parsed == JsonLoads(s)
                       IN  IF ~parsed.ok THEN None
                           ELSE IF parsed.kind = "list" THEN ParsedList(parsed.len)
                           ELSE List(<<>>)
    ELSE IF IsList(v) THEN v
    ELSE List(<<v>>)

\* _increment_network_health with total raised only for an unhealthy
\* resource.
_increment_network_health_TotalInElse(network_health, key, is_healthy) ==
    LET bucket == IF key \in DOMAIN network_health
                  THEN network_health[key]
                  ELSE [total |-> 0, healthy |-> 0]
        counted == IF is_healthy
                   THEN [bucket EXCEPT !.healthy = @ + 1]
                   ELSE [bucket EXCEPT !.total = @ + 1]
    IN  [x \in DOMAIN network_health \cup {key} |->
            IF x = key THEN counted ELSE network_health[x]]

_increment_network_health(network_health, key, is_healthy) ==
    LET bucket == IF key \in DOMAIN network_health
                  THEN network_health[key]
                  ELSE [total |-> 0, healthy |-> 0]
        counted == [total |-> bucket.total + 1,
                    healthy |-> IF is_healthy THEN bucket.healthy + 1
                                ELSE bucket.healthy]
    IN  [x \in DOMAIN network_health \cup {key} |->
            IF x = key THEN counted ELSE network_health[x]]

\* The verdict of the first of the three status fields, from the i-th on,
\* that is non-empty after normalization; None when there is none.
RECURSIVE StatusVerdict(_, _, _)
StatusVerdict(item, keys, i) ==
    IF i > Len(keys) THEN None
    ELSE LET status == _normalize_state(Get(item, keys[i]))
         IN  IF Truthy(status) THEN Bool(status = s_up)
             ELSE StatusVerdict(item, keys, i + 1)

\* The loop over peers with a non-'up' peer status ending the scan as
\* unhealthy instead of moving on to the next peer.
RECURSIVE PeerScan_StatusDisqualifies(_, _)
PeerScan_StatusDisqualifies(peers, i) ==
    IF i > Len(peers) THEN FALSE
    ELSE LET peer == peers[i]
         IN  IF ~IsDict(peer) THEN PeerScan_StatusDisqualifies(peers, i + 1)
             ELSE LET peer_status == _normalize_state(Lookup(peer.l, "bgpStatus", None))
                  IN  IF Truthy(peer_status) THEN peer_status = s_up
                      ELSE LET peer_state ==
                                   _normalize_state(Lookup(peer.l, "bgpPeerState", None))
                           IN  IF peer_state = s_available THEN TRUE
                               ELSE PeerScan_StatusDisqualifies(peers, i + 1)

\* The loop over peers, from the i-th peer on.
RECURSIVE PeerScan(_, _)
PeerScan(peers, i) ==
    IF i > Len(peers) THEN FALSE
    ELSE LET peer == peers[i]
         IN  IF ~IsDict(peer) THEN PeerScan(peers, i + 1)
             ELSE LET peer_status == _normalize_state(Lookup(peer.l, "bgpStatus", None))
                  IN  IF Truthy(peer_status)
                      THEN (IF peer_status = s_up THEN TRUE
                            ELSE PeerScan(peers, i + 1))
                      ELSE LET peer_state ==
                                   _normalize_state(Lookup(peer.l, "bgpPeerState", None))
                           IN  IF peer_state = s_available THEN TRUE
                               ELSE PeerScan(peers, i + 1)

\* The health function with a false bgpAllUp falling through to the later
\* signals instead of deciding.
_is_direct_connect_virtual_interface_healthy_FalseFallsThrough(item) ==
    IF DOMAIN item = {} THEN FALSE
    ELSE LET bgp_all_up == Get(item, "bgpAllUp")
             bgp_any_up == Get(item, "bgpAnyUp")
             by_status == StatusVerdict(item,
                              <<"bgpStatus", "bgpStatusIpv4", "bgpStatusIpv6">>, 1)
             peers == Get(item, "bgpPeers")
         IN  IF bgp_all_up = Bool(TRUE) THEN TRUE
             ELSE IF IsBool(bgp_any_up) THEN bgp_any_up.b
             ELSE IF ~IsNone(by_status) THEN by_status.b
             ELSE PeerScan(IF IsList(peers) THEN peers.l ELSE <<>>, 1)

\* The health function with bgpAnyUp consulted before bgpAllUp.
_is_direct_connect_virtual_interface_healthy_AnyUpFirst(item) ==
    IF DOMAIN item = {} THEN FALSE
    ELSE LET bgp_all_up == Get(item, "bgpAllUp")
             bgp_any_up == Get(item, "bgpAnyUp")
             by_status == StatusVerdict(item,
                              <<"bgpStatus", "bgpStatusIpv4", "bgpStatusIpv6">>, 1)
             peers == Get(item, "bgpPeers")
         IN  IF IsBool(bgp_any_up) THEN bgp_any_up.b
             ELSE IF IsBool(bgp_all_up) THEN bgp_all_up.b
             ELSE IF ~IsNone(by_status) THEN by_status.b
             ELSE PeerScan(IF IsList(peers) THEN peers.l ELSE <<>>, 1)

_is_direct_connect_virtual_interface_healthy(item) ==
    IF DOMAIN item = {} THEN FALSE
    ELSE LET bgp_all_up == Get(item, "bgpAllUp")
             bgp_any_up == Get(item, "bgpAnyUp")
             by_status == StatusVerdict(item,
                              <<"bgpStatus", "bgpStatusIpv4", "bgpStatusIpv6">>, 1)
             peers == Get(item, "bgpPeers")
         IN  IF IsBool(bgp_all_up) THEN bgp_all_up.b
             ELSE IF IsBool(bgp_any_up) THEN bgp_any_up.b
             ELSE IF ~IsNone(by_status) THEN by_status.b
             ELSE PeerScan(IF IsList(peers) THEN peers.l ELSE <<>>, 1)

_process_network_resource(self, resource_type, item) ==
    IF resource_type = T_DirectConnectConnection
    THEN LET state == _normalize_state(Get(item, "connectionState"))
         IN  [self EXCEPT !.network_health =
                 _increment_network_health(@, "directConnectConnections",
                                           state = s_available)]
    ELSE IF resource_type = T_DirectConnectVirtualInterface
    THEN LET is_healthy == _is_direct_connect_virtual_interface_healthy(item)
         IN  [self EXCEPT !.network_health =
                 _increment_network_health(@, "directConnectVirtualInterfaces",
                                           is_healthy)]
    ELSE IF resource_type = T_VPNConnection
    THEN LET state == _normalize_state(Get(item, "state"))
         IN  [self EXCEPT !.network_health =
                 _increment_network_health(@, "vpnConnections", state = s_available)]
    ELSE IF resource_type = T_TransitGateway
    THEN LET state == _normalize_state(Get(item, "state"))
         IN  [self EXCEPT !.network_health =
                 _increment_network_health(@, "transitGateways", state = s_available)]
    ELSE self

\* ------------------------------------------------------------------------
\* MetricsAccumulator: type-specific processors
\* ------------------------------------------------------------------------

\* The `if state == 'running'` branch with ssmStatus compared as given,
\* without lowercasing it.
Ec2RunningCounters_SsmCaseSensitive(self, item) ==
    LET has_memory == Truthy(GetDefault(item, "cwAgentMemoryDetected", Bool(FALSE)))
        has_disk == Truthy(GetDefault(item, "cwAgentDiskDetected", Bool(FALSE)))
        ssm_status == Or(Get(item, "ssmStatus"), s_empty)
    IN  [self EXCEPT
            !.ec2_running = @ + 1,
            !.ec2_cw_memory = IF has_memory THEN @ + 1 ELSE @,
            !.ec2_cw_disk = IF has_disk THEN @ + 1 ELSE @,
            !.ec2_cw_both = IF has_memory /\ has_disk THEN @ + 1 ELSE @,
            !.ec2_ssm_connected =
                IF ssm_status \in {s_connected, s_online} THEN @ + 1 ELSE @,
            !.ec2_ssm_notinstalled =
                IF /\ ssm_status \notin {s_connected, s_online}
                   /\ (ssm_status = s_notinstalled \/ ~Truthy(ssm_status))
                THEN @ + 1 ELSE @,
            !.ec2_ssm_notconnected =
                IF /\ ssm_status \notin {s_connected, s_online}
                   /\ ~(ssm_status = s_notinstalled \/ ~Truthy(ssm_status))
                THEN @ + 1 ELSE @]

\* The `if state == 'running'` branch: CloudWatch agent and SSM agent.
Ec2RunningCounters(self, item) ==
    LET has_memory == Truthy(GetDefault(item, "cwAgentMemoryDetected", Bool(FALSE)))
        has_disk == Truthy(GetDefault(item, "cwAgentDiskDetected", Bool(FALSE)))
        ssm_status == Str(StrLower(Or(Get(item, "ssmStatus"), s_empty).s))
    IN  [self EXCEPT
            !.ec2_running = @ + 1,
            !.ec2_cw_memory = IF has_memory THEN @ + 1 ELSE @,
            !.ec2_cw_disk = IF has_disk THEN @ + 1 ELSE @,
            !.ec2_cw_both = IF has_memory /\ has_disk THEN @ + 1 ELSE @,
            !.ec2_ssm_connected =
                IF ssm_status \in {s_connected, s_online} THEN @ + 1 ELSE @,
            !.ec2_ssm_notinstalled =
                IF /\ ssm_status \notin {s_connected, s_online}
                   /\ (ssm_status = s_notinstalled \/ ~Truthy(ssm_status))
                THEN @ + 1 ELSE @,
            !.ec2_ssm_notconnected =
                IF /\ ssm_status \notin {s_connected, s_online}
                   /\ ~(ssm_status = s_notinstalled \/ ~Truthy(ssm_status))
                THEN @ + 1 ELSE @]

\* The patch compliance classification without the strip() before lower().
Ec2PatchCounters_NoStrip(self, item) ==
    LET patch_status ==
            Str(StrLower(Or(Get(item, "patchCompliance"), s_Unknown).s))
    IN  IF patch_status = s_compliant
        THEN [self EXCEPT !.ec2_patch_compliant = @ + 1]
        ELSE IF patch_status \in {s_noncompliant, s_non_compliant}
        THEN [self EXCEPT !.ec2_patch_noncompliant = @ + 1]
        ELSE [self EXCEPT !.ec2_patch_unknown = @ + 1]

\* The patch compliance classification at the end of _process_ec2_item.
Ec2PatchCounters(self, item) ==
    LET patch_status ==
            Str(StrLower(StrStrip(Or(Get(item, "patchCompliance"), s_Unknown).s)))
    IN  IF patch_status = s_compliant
        THEN [self EXCEPT !.ec2_patch_compliant = @ + 1]
        ELSE IF patch_status \in {s_noncompliant, s_non_compliant}
        THEN [self EXCEPT !.ec2_patch_noncompliant = @ + 1]
        ELSE [self EXCEPT !.ec2_patch_unknown = @ + 1]

\* _process_ec2_item with the health histogram fed only by records that
\* carry a healthStatus.
_process_ec2_item_HealthOnlyWhenGiven(self, item) ==
    LET state == Str(StrLower(Or(Get(item, "instanceState"), s_unknown).s))
        counted == [self EXCEPT !.ec2_total = @ + 1,
                                !.ec2_states = Incr(@, state)]
        by_state == IF state = s_running THEN Ec2RunningCounters(counted, item)
                    ELSE IF state = s_stopped
                    THEN [counted EXCEPT !.ec2_stopped = @ + 1]
                    ELSE counted
        with_health == IF "healthStatus" \in DOMAIN item
                       THEN [by_state EXCEPT
                                !.ec2_health = Incr(@, item["healthStatus"])]
                       ELSE by_state
    IN  Ec2PatchCounters(with_health, item)

_process_ec2_item(self, item) ==
    LET state == Str(StrLower(Or(Get(item, "instanceState"), s_unknown).s))
        counted == [self EXCEPT !.ec2_total = @ + 1,
                                !.ec2_states = Incr(@, state)]
        by_state == IF state = s_running THEN Ec2RunningCounters(counted, item)
                    ELSE IF state = s_stopped
                    THEN [counted EXCEPT !.ec2_stopped = @ + 1]
                    ELSE counted
        health_status == GetDefault(item, "healthStatus", s_Unknown)
        with_health == [by_state EXCEPT !.ec2_health = Incr(@, health_status)]
    IN  Ec2PatchCounters(with_health, item)

_process_rds_item(self, item) ==
    LET status == Str(StrLower(Or(Get(item, "status"), s_empty).s))
        engine == GetDefault(item, "engine", s_unknown)
    IN  [self EXCEPT
            !.rds_total = @ + 1,
            !.rds_available = IF status = s_available THEN @ + 1 ELSE @,
            !.rds_engines = Incr(@, engine),
            !.rds_multiaz = IF Truthy(Get(item, "multiAZ")) THEN @ + 1 ELSE @,
            !.rds_performance_insights =
                IF Truthy(Get(item, "performanceInsightsEnabled")) THEN @ + 1 ELSE @]

_process_s3_item(self, item) ==
    [self EXCEPT
        !.s3_total = @ + 1,
        !.s3_with_lifecycle =
            IF Truthy(Get(item, "hasLifecycleRules")) THEN @ + 1 ELSE @]

\* The dedup key (accountId, region, volumeId) of an EBS record.
EbsKey(item) ==
    LET vid == Or(Or(Get(item, "volumeId"), Get(item, "id")), s_unknown)
        acc == Or(Get(item, "accountId"), s_unknown)
        reg == Or(Get(item, "region"), s_unknown)
    IN  <<acc, reg, vid>>

\* The loop over the four state keys, from the i-th on: the first value that
\* is non-empty after normalization, else what the last key gave (None).
\* The state read from the i-th key alone, whatever the later keys hold.
EbsState_OneKeyOnly(item, keys, i) == _normalize_state(Get(item, keys[i]))

RECURSIVE EbsState(_, _, _)
EbsState(item, keys, i) ==
    LET state == _normalize_state(Get(item, keys[i]))
    IN  IF Truthy(state) \/ i = Len(keys) THEN state
        ELSE EbsState(item, keys, i + 1)

\* The unattached verdict of a record that passed deduplication.
EbsUnattached(item) ==
    LET state == EbsState(item, <<"status", "state", "volumeStatus", "volumeState">>, 1)
        attachments ==
            _as_list_or_none(Or(Or(Get(item, "attachments"),
                                   Get(item, "attachedInstances")),
                                Get(item, "attached_instances")))
    IN  IF state = s_available THEN TRUE
        ELSE IF state \in {s_in_use_hyphen, s_in_use} THEN FALSE
        ELSE IsNone(state) /\ IsList(attachments) /\ Len(attachments.l) = 0

\* _process_ebs_item where a record of a key already seen is counted when
\* it is unattached and nothing was counted so far.
_process_ebs_item_SeenKeyUpgraded(self, item) ==
    LET key == EbsKey(item)
    IN  IF key \in self._seen_ebs
        THEN [self EXCEPT
                 !.ebs_unattached =
                     IF EbsUnattached(item) /\ @ = 0 THEN @ + 1 ELSE @]
        ELSE [self EXCEPT
                 !._seen_ebs = @ \cup {key},
                 !.ebs_unattached = IF EbsUnattached(item) THEN @ + 1 ELSE @]

\* _process_ebs_item without the early return on a key already seen
_process_ebs_item_NoDedup(self, item) ==
    [self EXCEPT
        !._seen_ebs = @ \cup {EbsKey(item)},
        !.ebs_unattached = IF EbsUnattached(item) THEN @ + 1 ELSE @]

_process_ebs_item(self, item) ==
    LET key == EbsKey(item)
    IN  IF key \in self._seen_ebs THEN self
        ELSE [self EXCEPT
                 !._seen_ebs = @ \cup {key},
                 !.ebs_unattached = IF EbsUnattached(item) THEN @ + 1 ELSE @]

_process_eip_item(self, item) ==
    IF ~Truthy(Get(item, "instanceId")) /\ ~Truthy(Get(item, "networkInterfaceId"))
    THEN [self EXCEPT !.eip_unassociated = @ + 1]
    ELSE self

_process_sg_item(self, item) ==
    [self EXCEPT
        !.sg_total = @ + 1,
        !.sg_with_exposed_ports =
            IF Truthy(Get(item, "hasExposedIngressPorts")) THEN @ + 1 ELSE @]

_process_snapshot_item(self, item) == self

\* ------------------------------------------------------------------------
\* MetricsAccumulator: add_collected_region, add_resource
\* ------------------------------------------------------------------------

add_collected_region(self, region) ==
    IF Truthy(region)
    THEN [self EXCEPT !.regions_collected = @ \cup {region}]
    ELSE self

\* Count by type, by account and by region.
\* The global counters with the first name of an account kept.
CountGlobal_FirstNameKept(self, item) ==
    LET resource_type == Get(item, "resourceType")
        account_id == Get(item, "accountId")
        account_name == Get(item, "accountName")
        region == Get(item, "region")
    IN  [self EXCEPT
            !.resource_counts = Incr(@, resource_type),
            !.account_counts = IF Truthy(account_id) THEN Incr(@, account_id) ELSE @,
            !.account_names =
                IF Truthy(account_id) /\ Truthy(account_name) /\ ~HasKey(@, account_id)
                THEN SetItem(@, account_id, account_name) ELSE @,
            !.region_counts =
                IF Truthy(region) /\ region # s_global THEN Incr(@, region) ELSE @]

CountGlobal(self, item) ==
    LET resource_type == Get(item, "resourceType")
        account_id == Get(item, "accountId")
        account_name == Get(item, "accountName")
        region == Get(item, "region")
    IN  [self EXCEPT
            !.resource_counts = Incr(@, resource_type),
            !.account_counts = IF Truthy(account_id) THEN Incr(@, account_id) ELSE @,
            !.account_names =
                IF Truthy(account_id) /\ Truthy(account_name)
                THEN SetItem(@, account_id, account_name) ELSE @,
            !.region_counts =
                IF Truthy(region) /\ region # s_global THEN Incr(@, region) ELSE @]

\* The if/elif chain on resource_type.
Dispatch(self, resource_type, item) ==
    IF resource_type = T_EC2Instance THEN _process_ec2_item(self, item)
    ELSE IF resource_type = T_RDSInstance THEN _process_rds_item(self, item)
    ELSE IF resource_type = T_S3Bucket THEN _process_s3_item(self, item)
    ELSE IF resource_type = T_EBSVolume THEN _process_ebs_item(self, item)
    ELSE IF resource_type = T_ElasticIP THEN _process_eip_item(self, item)
    ELSE IF resource_type = T_SecurityGroup THEN _process_sg_item(self, item)
    ELSE IF resource_type \in {T_EBSSnapshot, T_AMI}
         THEN _process_snapshot_item(self, item)
    ELSE IF resource_type = T_VPC THEN [self EXCEPT !.vpc_total = @ + 1]
    ELSE IF resource_type = T_Subnet THEN [self EXCEPT !.subnet_total = @ + 1]
    ELSE IF resource_type = T_EFSFileSystem THEN [self EXCEPT !.efs_total = @ + 1]
    ELSE IF resource_type = T_FSxFileSystem THEN [self EXCEPT !.fsx_total = @ + 1]
    ELSE IF resource_type = T_BackupPlan THEN [self EXCEPT !.backup_plans = @ + 1]
    ELSE IF resource_type = T_BackupVault THEN [self EXCEPT !.backup_vaults = @ + 1]
    ELSE IF resource_type = T_BackupRecoveryPoint
         THEN [self EXCEPT !.backup_recovery_points = @ + 1]
    ELSE self

\* add_resource with records of a type that has no processor dropped before
\* they are counted.
add_resource_UnknownTypeDropped(self, item) ==
    LET resource_type == Get(item, "resourceType")
    IN  IF ~Truthy(resource_type) THEN self
        ELSE IF resource_type \notin
                    { T_EC2Instance, T_RDSInstance, T_S3Bucket, T_EBSVolume,
                      T_ElasticIP, T_SecurityGroup, T_EBSSnapshot, T_AMI, T_VPC,
                      T_Subnet, T_EFSFileSystem, T_FSxFileSystem, T_BackupPlan,
                      T_BackupVault, T_BackupRecoveryPoint,
                      T_DirectConnectConnection, T_DirectConnectVirtualInterface,
                      T_VPNConnection, T_TransitGateway }
        THEN self
        ELSE Dispatch(_process_network_resource(CountGlobal(self, item),
                                                resource_type, item),
                      resource_type, item)

\* add_resource without the early return on a missing resourceType.
add_resource_NoTypeGuard(self, item) ==
    LET resource_type == Get(item, "resourceType")
    IN  Dispatch(_process_network_resource(CountGlobal(self, item),
                                           resource_type, item),
                 resource_type, item)

add_resource(self, item) ==
    LET resource_type == Get(item, "resourceType")
    IN  IF ~Truthy(resource_type) THEN self
        ELSE Dispatch(_process_network_resource(CountGlobal(self, item),
                                                resource_type, item),
                      resource_type, item)

\* ------------------------------------------------------------------------
\* MetricsAccumulator: get_metrics
\* ------------------------------------------------------------------------

Max(a, b) == IF a >= b THEN a ELSE b

\* sorted(d.items(), key=lambda x: x[1], reverse=True): a stable sort, so
\* entries of equal count keep the order they have in d.
\* The insertion with an entry going before the entries of equal count: a
\* sort that is not stable.
RECURSIVE InsertByCount_BeforeEqual(_, _)
InsertByCount_BeforeEqual(sorted, entry) ==
    IF sorted = <<>> THEN <<entry>>
    ELSE IF Head(sorted).val > entry.val
         THEN <<Head(sorted)>> \o InsertByCount_BeforeEqual(Tail(sorted), entry)
         ELSE <<entry>> \o sorted

RECURSIVE InsertByCount(_, _)
InsertByCount(sorted, entry) ==
    IF sorted = <<>> THEN <<entry>>
    ELSE IF Head(sorted).val >= entry.val
         THEN <<Head(sorted)>> \o InsertByCount(Tail(sorted), entry)
         ELSE <<entry>> \o sorted

RECURSIVE SortedByCount(_, _)
SortedByCount(d, i) ==
    IF i = 0 THEN <<>> ELSE InsertByCount(SortedByCount(d, i - 1), d[i])

_build_network_health_metrics(self) ==
    [key \in DOMAIN self.network_health |->
        LET total == self.network_health[key].total
            healthy == self.network_health[key].healthy
        IN  [total |-> total,
             healthy |-> healthy,
             unhealthy |-> Max(total - healthy, 0),
             healthyPercentage |-> _safe_pct(healthy, total)]]

AccountDistribution(self) ==
    LET sorted == SortedByCount(self.account_counts, Len(self.account_counts))
    IN  [i \in 1..Len(sorted) |->
            [accountId |-> sorted[i].key,
             accountName |-> Lookup(self.account_names, sorted[i].key, sorted[i].key),
             count |-> sorted[i].val]]

RegionDistribution(self) ==
    LET sorted == SortedByCount(self.region_counts, Len(self.region_counts))
    IN  [i \in 1..Len(sorted) |-> [region |-> sorted[i].key, count |-> sorted[i].val]]

GlobalMetrics(self) ==
    [totalResources |-> SumValues(self.resource_counts),
     resourceCounts |-> self.resource_counts,
     accountDistribution |-> AccountDistribution(self),
     regionDistribution |-> RegionDistribution(self),
     regionsCollected |-> Cardinality(self.regions_collected),
     resourceRegionsFound |-> Len(self.region_counts),
     networkHealth |-> _build_network_health_metrics(self)]

\* The ec2 section built whether or not an instance was counted.
Ec2Metrics_Always(self) ==
    [total |-> self.ec2_total,
     byState |-> self.ec2_states,
     healthStatus |-> self.ec2_health]

Ec2Metrics(self) ==
    IF self.ec2_total > 0
    THEN [total |-> self.ec2_total,
          byState |-> self.ec2_states,
          healthStatus |-> self.ec2_health,
          cloudwatchAgent |->
              [memoryMonitoring |-> self.ec2_cw_memory,
               diskMonitoring |-> self.ec2_cw_disk,
               bothEnabled |-> self.ec2_cw_both,
               noneEnabled |->
                   Max(self.ec2_running - Max(self.ec2_cw_memory, self.ec2_cw_disk), 0),
               percentageWithMemory |-> _safe_pct(self.ec2_cw_memory, self.ec2_running),
               percentageWithDisk |-> _safe_pct(self.ec2_cw_disk, self.ec2_running)],
          ssmAgent |->
              [connected |-> self.ec2_ssm_connected,
               notConnected |-> self.ec2_ssm_notconnected,
               notInstalled |-> self.ec2_ssm_notinstalled,
               percentageConnected |->
                   _safe_pct(self.ec2_ssm_connected, self.ec2_running)],
          patchCompliance |->
              [compliant |-> self.ec2_patch_compliant,
               nonCompliant |-> self.ec2_patch_noncompliant,
               unknown |-> self.ec2_patch_unknown,
               percentageCompliant |->
                   _safe_pct(self.ec2_patch_compliant, self.ec2_total)]]
    ELSE None

RdsMetrics(self) ==
    IF self.rds_total > 0
    THEN [total |-> self.rds_total,
          available |-> self.rds_available,
          engines |-> self.rds_engines,
          multiAZ |-> self.rds_multiaz,
          performanceInsights |-> self.rds_performance_insights,
          percentageMultiAZ |-> _safe_pct(self.rds_multiaz, self.rds_total),
          percentageWithPerfInsights |->
              _safe_pct(self.rds_performance_insights, self.rds_total)]
    ELSE None

StorageMetrics(self) ==
    [s3Buckets |-> self.s3_total,
     s3WithLifecycle |-> self.s3_with_lifecycle,
     s3WithoutLifecycle |-> Max(self.s3_total - self.s3_with_lifecycle, 0),
     ebsVolumes |-> Lookup(self.resource_counts, T_EBSVolume, 0),
     ebsSnapshots |-> Lookup(self.resource_counts, T_EBSSnapshot, 0),
     amiSnapshots |-> Lookup(self.resource_counts, T_AMI, 0),
     efsFileSystems |-> self.efs_total,
     fsxFileSystems |-> self.fsx_total,
     backupPlans |-> self.backup_plans,
     backupVaults |-> self.backup_vaults,
     backupRecoveryPoints |-> self.backup_recovery_points]

UnattachedMetrics(self) ==
    [unattachedEBSVolumes |-> self.ebs_unattached,
     unassociatedElasticIPs |-> self.eip_unassociated]

SecurityMetrics(self) ==
    [securityGroups |-> self.sg_total,
     exposedSecurityGroups |-> self.sg_with_exposed_ports,
     percentageExposed |-> _safe_pct(self.sg_with_exposed_ports, self.sg_total)]

\* The returned dict; a section that is None in the code is None here.
get_metrics(self) ==
    [global |-> GlobalMetrics(self),
     ec2 |-> Ec2Metrics(self),
     rds |-> RdsMetrics(self),
     storage |-> StorageMetrics(self),
     unattached |-> UnattachedMetrics(self),
     security |-> SecurityMetrics(self),
     network |-> _build_network_health_metrics(self)]

\* ------------------------------------------------------------------------
\* Flatten helper
\* ------------------------------------------------------------------------

s_value == Str(<<"v","a","l","u","e">>)

\* ch.isalnum() on the ASCII characters
IsAlnum(ch) ==
    \/ ch \in Digits
    \/ \E i \in 1..Len(Upper) : Upper[i] = ch \/ Lower[i] = ch

\* ch if ch.isalnum() or ch == '_' else '_', for every ch of text
RECURSIVE ReplaceOthers(_)
ReplaceOthers(text) ==
    IF text = <<>> THEN <<>>
    ELSE <<IF IsAlnum(Head(text)) \/ Head(text) = "_" THEN Head(text) ELSE "_">>
             \o ReplaceOthers(Tail(text))

\* s.strip('_')
RECURSIVE LStripUnderscores(_)
LStripUnderscores(s) ==
    IF s # <<>> /\ Head(s) = "_" THEN LStripUnderscores(Tail(s)) ELSE s

RECURSIVE RStripUnderscores(_)
RStripUnderscores(s) ==
    IF s # <<>> /\ s[Len(s)] = "_"
    THEN RStripUnderscores(SubSeq(s, 1, Len(s) - 1)) ELSE s

\* _sanitize_flat_key without the strip('_').
_sanitize_flat_key_NoStrip(key) ==
    IF IsNone(key) THEN s_unknown
    ELSE Or(Str(ReplaceOthers(PyStr(key).s)), s_value)

_sanitize_flat_key(key) ==
    IF IsNone(key) THEN s_unknown
    ELSE LET text == PyStr(key).s
             sanitized == RStripUnderscores(LStripUnderscores(ReplaceOthers(text)))
         IN  Or(Str(sanitized), s_value)

\* f"{prefix}_{key}" if prefix else key
PrefixedKey(prefix, key) ==
    IF Truthy(prefix) THEN Str(prefix.s \o <<"_">> \o key.s) ELSE key

\* f"{new_key}_{i}"
IndexedKey(new_key, i) == Str(new_key.s \o <<"_">> \o Decimal(i))

\* flatten_metric(target, data, prefix), for data that is a dict or falsy.
\* FlattenItems is its loop over data.items() from the n-th entry on,
\* FlattenList the loop over enumerate(v) from the n-th element on.
RECURSIVE flatten_metric(_, _, _)
RECURSIVE FlattenItems(_, _, _, _)
RECURSIVE FlattenList(_, _, _, _)

\* The loop over a list with a nested list stored under its index as it is.
FlattenList_NestedListStored(target, v, n, new_key) ==
    IF n > Len(v) THEN target
    ELSE LET elem == v[n]
             indexed_key == IndexedKey(new_key, n - 1)
             done == IF IsDict(elem) THEN flatten_metric(target, elem, indexed_key)
                     ELSE SetItem(target, indexed_key, elem)
         IN  Evaluated(done, FlattenList(done, v, n + 1, new_key))

FlattenList(target, v, n, new_key) ==
    IF n > Len(v) THEN target
    ELSE LET elem == v[n]
             indexed_key == IndexedKey(new_key, n - 1)
             done == IF IsDict(elem) THEN flatten_metric(target, elem, indexed_key)
                     ELSE IF IsList(elem)
                     THEN flatten_metric(target,
                              Dict(<<[key |-> Str(Decimal(n - 1)), val |-> elem]>>),
                              new_key)
                     ELSE SetItem(target, indexed_key, elem)
         IN  Evaluated(done, FlattenList(done, v, n + 1, new_key))

FlattenItems(target, items, n, prefix) ==
    IF n > Len(items) THEN target
    ELSE LET v == items[n].val
             sanitized_key == _sanitize_flat_key(items[n].key)
             new_key == PrefixedKey(prefix, sanitized_key)
             done == IF IsDict(v) THEN flatten_metric(target, v, new_key)
                     ELSE IF IsList(v) THEN FlattenList(target, v.l, 1, new_key)
                     ELSE SetItem(target, new_key, v)
         IN  Evaluated(done, FlattenItems(done, items, n + 1, prefix))

flatten_metric(target, data, prefix) ==
    FlattenItems(target, IF Truthy(data) THEN data.l ELSE <<>>, 1, prefix)

\* ------------------------------------------------------------------------
\* Persistence
\* ------------------------------------------------------------------------

\* d.get(key, default) on a dict value, for a key the code names
DictGet(d, literal, default) == Lookup(d.l, Text(literal), default)

\* d.update(other): the keys d has keep their place and take the value
\* other gives them, the keys it has not follow in the order of other
Update(d, other) ==
    [i \in 1..Len(d) |-> [d[i] EXCEPT !.val = Lookup(other, d[i].key, @)]]
        \o SelectSeq(other, LAMBDA entry : ~HasKey(d, entry.key))

\* int(x) of an int or a bool
PyIntOf(x) == IF IsBool(x) THEN PyInt(IF x.b THEN 1 ELSE 0) ELSE x

\* round(float(x), 3) of a whole number of seconds
RoundedFloat(x) ==
    [k |-> "float", b |-> FALSE, s |-> PyIntOf(x).s \o <<".", "0">>, l |-> <<>>]

\* a decimal number padded with zeros to a width, as %m and %d print it
ZeroPadded(n, width) ==
    LET digits == Decimal(n)
    IN  [i \in 1..(width - Len(digits)) |-> "0"] \o digits

\* timestamp.strftime('%Y-%m-%d')
date_str_iso(timestamp) ==
    Decimal(timestamp.year) \o <<"-">> \o ZeroPadded(timestamp.month, 2)
        \o <<"-">> \o ZeroPadded(timestamp.day, 2)

\* timestamp.strftime('%d_%m_%Y')
date_str_br(timestamp) ==
    ZeroPadded(timestamp.day, 2) \o <<"_">> \o ZeroPadded(timestamp.month, 2)
        \o <<"_">> \o Decimal(timestamp.year)

\* collectors.base.format_aws_datetime is not among the sources; it is
\* described as producing an ISO-8601 string of the timestamp, taken here
\* at midnight UTC.
format_aws_datetime(timestamp) ==
    Str(date_str_iso(timestamp) \o Chars("T00:00:00Z"))

\* the dict literal dashboard_item starts from
BaseItem(timestamp, processing_duration) ==
    LET iso_timestamp == format_aws_datetime(timestamp)
    IN  << Entry(Text("id"), Text("METRIC_DASHBOARD_CURRENT")),
           Entry(Text("resourceType"), Text("METRICS_DASHBOARD")),
           Entry(Text("accountId"), Text("GLOBAL")),
           Entry(Text("accountName"), Text("Metrics Dashboard")),
           Entry(Text("region"), Text("global")),
           Entry(Text("metricDate"), Str(date_str_iso(timestamp))),
           Entry(Text("metricDateKey"), Str(date_str_br(timestamp))),
           Entry(Text("isMetric"), Bool(TRUE)),
           Entry(Text("createdAt"), iso_timestamp),
           Entry(Text("updatedAt"), iso_timestamp),
           Entry(Text("processingDurationSeconds"),
                 RoundedFloat(processing_duration)) >>

\* metrics.get('global', {}) or {}
GlobalSection(metrics) ==
    Or(DictGet(metrics, "global", Dict(EmptyDict)), Dict(EmptyDict))

\* the two distribution lists, kept as lists
Distributions(global_metrics) ==
    << Entry(Text("accountDistribution"),
             DictGet(global_metrics, "accountDistribution", List(<<>>))),
       Entry(Text("regionDistribution"),
             DictGet(global_metrics, "regionDistribution", List(<<>>))) >>

\* global_flat
GlobalFlat(global_metrics) ==
    flatten_metric(EmptyDict,
        Dict(<< Entry(Text("totalResources"),
                      DictGet(global_metrics, "totalResources", PyInt(0))),
                Entry(Text("resourceCounts"),
                      DictGet(global_metrics, "resourceCounts", Dict(EmptyDict))),
                Entry(Text("regionsCollected"),
                      DictGet(global_metrics, "regionsCollected", PyInt(0))),
                Entry(Text("resourceRegionsFound"),
                      DictGet(global_metrics, "resourceRegionsFound", PyInt(0))),
                Entry(Text("networkHealth"),
                      DictGet(global_metrics, "networkHealth", Dict(EmptyDict))) >>),
        Str(<<>>))

\* the EC2 maps and the explicit patch keys, when metrics has an ec2 section
Ec2Maps(item, metrics) ==
    LET ec2_section == DictGet(metrics, "ec2", None)
        patch == Or(DictGet(ec2_section, "patchCompliance", Dict(EmptyDict)),
                    Dict(EmptyDict))
    IN  IF ~Truthy(ec2_section) THEN item
        ELSE Update(item,
               << Entry(Text("ec2_byState"),
                        DictGet(ec2_section, "byState", Dict(EmptyDict))),
                  Entry(Text("ec2_healthStatus"),
                        DictGet(ec2_section, "healthStatus", Dict(EmptyDict))),
                  Entry(Text("ec2_ssm_compliant"),
                        PyIntOf(DictGet(patch, "compliant", PyInt(0)))),
                  Entry(Text("ec2_ssm_not_compliant"),
                        PyIntOf(DictGet(patch, "nonCompliant", PyInt(0)))),
                  Entry(Text("ec2_ssm_unknown"),
                        PyIntOf(DictGet(patch, "unknown", PyInt(0)))) >>)

_include_section(item, metrics, source_key, prefix) ==
    LET section_payload == DictGet(metrics, source_key, None)
    IN  IF Truthy(section_payload)
        THEN Update(item, flatten_metric(EmptyDict, section_payload, Text(prefix)))
        ELSE item

\* rds_engines, when metrics has an rds section
RdsEngines(item, metrics) ==
    LET rds_section == DictGet(metrics, "rds", None)
    IN  IF Truthy(rds_section)
        THEN SetItem(item, Text("rds_engines"),
                     DictGet(rds_section, "engines", Dict(EmptyDict)))
        ELSE item

\* f'networkHealth_{bucket_key}_{metric_key}'
NetworkKey(bucket, metric_name) ==
    Str(Chars("networkHealth_") \o _sanitize_flat_key(bucket).s
          \o <<"_">> \o _sanitize_flat_key(metric_name).s)

\* the loop over values.items() of one bucket, from its n-th entry on
RECURSIVE NetworkMetrics(_, _, _, _)
NetworkMetrics(item, bucket, values, n) ==
    IF n > Len(values) THEN item
    ELSE LET set == SetItem(item, NetworkKey(bucket, values[n].key), values[n].val)
         IN  Evaluated(set, NetworkMetrics(set, bucket, values, n + 1))

\* the loop over network_health.items(), from its n-th entry on
RECURSIVE NetworkHealthLoop(_, _, _)
NetworkHealthLoop(item, network_health, n) ==
    IF n > Len(network_health) THEN item
    ELSE LET bucket == network_health[n].key
             values == network_health[n].val
             done == IF IsDict(values) THEN NetworkMetrics(item, bucket, values.l, 1)
                     ELSE item
         IN  Evaluated(done, NetworkHealthLoop(done, network_health, n + 1))

\* the current item, as it stands when the dated item is cloned from it
dashboard_item(metrics, processing_duration, timestamp) ==
    LET global_metrics == GlobalSection(metrics)
        base == BaseItem(timestamp, processing_duration)
        distributed == Update(base, Distributions(global_metrics))
        flat == Update(distributed, GlobalFlat(global_metrics))
        ec2 == _include_section(Ec2Maps(flat, metrics), metrics, "ec2", "ec2")
        rds == _include_section(RdsEngines(ec2, metrics), metrics, "rds", "rds")
        storage == _include_section(rds, metrics, "storage", "storage")
        unattached == _include_section(storage, metrics, "unattached", "unattached")
        security == _include_section(unattached, metrics, "security", "security")
        network_health == Or(DictGet(global_metrics, "networkHealth", Dict(EmptyDict)),
                             Dict(EmptyDict))
    IN  NetworkHealthLoop(security, network_health.l, 1)

\* The dated item cloned from the base dict literal alone.
dated_item_OfBaseItem(item, timestamp) ==
    Update(SubSeq(item, 1, 11),
           << Entry(Text("id"),
                    Str(Chars("METRICS_DASHBOARD_") \o date_str_br(timestamp))),
              Entry(Text("isLatest"), Bool(FALSE)),
              Entry(Text("isArchive"), Bool(TRUE)) >>)

\* dict(dashboard_item) with its id and its two flags set
dated_item(item, timestamp) ==
    Update(item,
           << Entry(Text("id"),
                    Str(Chars("METRICS_DASHBOARD_") \o date_str_br(timestamp))),
              Entry(Text("isLatest"), Bool(FALSE)),
              Entry(Text("isArchive"), Bool(TRUE)) >>)

items_to_save(metrics, processing_duration, timestamp) ==
    LET item == dashboard_item(metrics, processing_duration, timestamp)
    IN  <<item, dated_item(item, timestamp)>>

\* collectors.base.batch_write_to_dynamodb is not among the sources; it is
\* described as taking destination handles and a list of items and
\* returning a count of items written.  A call of it either raises or
\* returns a count, as its outcome says.
NoWrites == [total_saved |-> 0, calls |-> <<>>, completed |-> TRUE]

\* One write whose exception is not caught: the function is left at it.
WriteOne_Propagates(done, table, items, outcome) ==
    [total_saved |-> IF outcome.raises THEN done.total_saved ELSE outcome.count,
     calls |-> Append(done.calls, [tables |-> <<table>>, items |-> items]),
     completed |-> ~outcome.raises]

\* One write whose count is added to the counts before it.
WriteOne_SumsCounts(done, table, items, outcome) ==
    [total_saved |-> IF outcome.raises THEN done.total_saved
                     ELSE done.total_saved + outcome.count,
     calls |-> Append(done.calls, [tables |-> <<table>>, items |-> items]),
     completed |-> done.completed]

\* the body of the loop: one try/except around one write
WriteOne(done, table, items, outcome) ==
    [total_saved |-> IF outcome.raises THEN done.total_saved ELSE outcome.count,
     calls |-> Append(done.calls, [tables |-> <<table>>, items |-> items]),
     completed |-> done.completed]

\* the loop over metrics_tables, from its n-th table on
RECURSIVE WriteLoop(_, _, _, _, _)
WriteLoop(done, metrics_tables, items, outcomes, n) ==
    IF n > Len(metrics_tables) \/ ~done.completed THEN done
    ELSE WriteLoop(WriteOne(done, metrics_tables[n], items, outcomes[n]),
                   metrics_tables, items, outcomes, n + 1)

\* save_metrics_to_dynamodb: what it returns, the calls of the batch write
\* it makes, and whether it returns at all
save_metrics_to_dynamodb(metrics_tables, metrics, processing_duration, timestamp, outcomes) ==
    WriteLoop(NoWrites, metrics_tables,
              items_to_save(metrics, processing_duration, timestamp),
              outcomes, 1)

\* ------------------------------------------------------------------------
\* The state machine
\* ------------------------------------------------------------------------

VARIABLES
    acc,        \* the MetricsAccumulator instance (self)
    op,         \* the operation performed last
    arg,        \* its argument: the record fed, the region marked
    pre,        \* the accumulator as it was before that operation
    hist,       \* what was fed since construction or the last reset
    snapshot,   \* what the last get_metrics() returned
    numer,      \* _safe_pct: the numerator drawn
    denom,      \* _safe_pct: the denominator drawn
    pct,        \* _safe_pct: the value returned
    ret,        \* what the last call of a module-level function returned
    written     \* the batch writes the last save_metrics_to_dynamodb made

vars == <<acc, op, arg, pre, hist, snapshot, numer, denom, pct, ret, written>>
pctVars == <<numer, denom, pct>>

\* calls: add_resource and add_collected_region calls; typed: the records
\* fed whose resourceType was present and non-empty; neither: the running
\* EC2 instances fed whose two CloudWatch agent flags were both falsy.
NoHistory == [calls |-> 0, typed |-> 0, neither |-> 0]

\* A running EC2 instance with neither CloudWatch agent flag set.
RunsWithNeither(item) ==
    /\ Get(item, "resourceType") = T_EC2Instance
    /\ Str(StrLower(Or(Get(item, "instanceState"), s_unknown).s)) = s_running
    /\ ~Truthy(Get(item, "cwAgentMemoryDetected"))
    /\ ~Truthy(Get(item, "cwAgentDiskDetected"))

NoSnapshot == None

Constructed ==
    /\ acc = reset
    /\ op = "__init__"
    /\ arg = None
    /\ pre = reset
    /\ hist = NoHistory
    /\ snapshot = NoSnapshot
    /\ ret = None
    /\ written = <<>>

Init ==
    /\ Constructed
    /\ numer = 0
    /\ denom = 0
    /\ pct = 0

AddResource(item) ==
    /\ hist.calls < MaxCalls
    /\ acc' = add_resource(acc, item)
    /\ op' = "add_resource"
    /\ arg' = item
    /\ pre' = acc
    /\ hist' = [hist EXCEPT !.calls = @ + 1,
                            !.typed = IF Truthy(Get(item, "resourceType"))
                                      THEN @ + 1 ELSE @,
                            !.neither = IF RunsWithNeither(item)
                                        THEN @ + 1 ELSE @]
    /\ snapshot' = NoSnapshot
    /\ UNCHANGED <<pctVars, ret, written>>

AddCollectedRegion(region) ==
    /\ hist.calls < MaxCalls
    /\ acc' = add_collected_region(acc, region)
    /\ op' = "add_collected_region"
    /\ arg' = region
    /\ pre' = acc
    /\ hist' = [hist EXCEPT !.calls = @ + 1]
    /\ snapshot' = NoSnapshot
    /\ UNCHANGED <<pctVars, ret, written>>

\* A reset that clears everything but the EBS keys seen.
Reset_KeepsSeenEbs ==
    /\ acc' = [reset EXCEPT !._seen_ebs = acc._seen_ebs]
    /\ op' = "reset"
    /\ arg' = None
    /\ pre' = acc
    /\ hist' = NoHistory
    /\ snapshot' = NoSnapshot
    /\ UNCHANGED <<pctVars, ret, written>>

Reset ==
    /\ acc' = reset
    /\ op' = "reset"
    /\ arg' = None
    /\ pre' = acc
    /\ hist' = NoHistory
    /\ snapshot' = NoSnapshot
    /\ UNCHANGED <<pctVars, ret, written>>

GetMetrics ==
    /\ snapshot' = get_metrics(acc)
    /\ op' = "get_metrics"
    /\ arg' = None
    /\ pre' = acc
    /\ UNCHANGED <<acc, hist>>
    /\ UNCHANGED <<pctVars, ret, written>>

\* add_resource as the first call on a newly constructed accumulator
FeedFresh(items) ==
    /\ op = "__init__"
    /\ \E item \in items : AddResource(item)

\* _safe_pct(numer, denom) on the pair drawn
ApplySafePct ==
    /\ op = "__init__"
    /\ pct' = _safe_pct(numer, denom)
    /\ op' = "_safe_pct"
    /\ UNCHANGED <<acc, arg, pre, hist, snapshot, numer, denom, ret, written>>

\* _sanitize_flat_key(key)
SanitizeFlatKey(key) ==
    /\ op = "__init__"
    /\ ret' = _sanitize_flat_key(key)
    /\ op' = "_sanitize_flat_key"
    /\ arg' = key
    /\ UNCHANGED <<acc, pre, hist, snapshot, pctVars, written>>

\* flatten_metric(target, data, prefix)
FlattenMetric(target, data, prefix) ==
    /\ op = "__init__"
    /\ ret' = flatten_metric(target, data, prefix)
    /\ op' = "flatten_metric"
    /\ arg' = [target |-> target, data |-> data, prefix |-> prefix]
    /\ UNCHANGED <<acc, pre, hist, snapshot, pctVars, written>>

\* the function left by an exception instead of a return
Raised == [k |-> "exception", b |-> FALSE, s |-> <<>>, l |-> <<>>]

\* save_metrics_to_dynamodb(metrics_tables, metrics, processing_duration),
\* at the time the clock shows, with the outcome each batch write has
SaveMetrics(metrics_tables, metrics, processing_duration, timestamp, outcomes) ==
    /\ op = "__init__"
    /\ LET saved == save_metrics_to_dynamodb(metrics_tables, metrics,
                         processing_duration, timestamp, outcomes)
       IN  /\ ret' = IF saved.completed THEN PyInt(saved.total_saved) ELSE Raised
           /\ written' = saved.calls
    /\ op' = "save_metrics_to_dynamodb"
    /\ arg' = [metrics_tables |-> metrics_tables, metrics |-> metrics,
               processing_duration |-> processing_duration,
               timestamp |-> timestamp, outcomes |-> outcomes]
    /\ UNCHANGED <<acc, pre, hist, snapshot, pctVars>>

\* ------------------------------------------------------------------------
\* The records fed
\* ------------------------------------------------------------------------

\* A key that a record does not have.
Absent == [k |-> "absent", b |-> FALSE, s |-> <<>>, l |-> <<>>]

\* The dict with the fields of r that are not Absent.
Record(r) == [f \in {x \in DOMAIN r : r[x] # Absent} |-> r[f]]

\* data strings
a1 == Str(<<"a","1">>)
a2 == Str(<<"a","2">>)
name1 == Str(<<"P","r","o","d">>)
region1 == Str(<<"r","1">>)
region2 == Str(<<"r","2">>)
vol1 == Str(<<"v","1">>)
vol2 == Str(<<"v","2">>)
attachment == Dict(<<[key |-> "instanceId", val |-> Str(<<"i","1">>)]>>)
T_Lambda == Str(<<"L","a","m","b","d","a">>)
s_Available == Str(<<"A","v","a","i","l","a","b","l","e">>)
s_available_padded == Str(<<" ","a","v","a","i","l","a","b","l","e"," ">>)
s_deleting == Str(<<"d","e","l","e","t","i","n","g">>)
s_blank == Str(<<" ">>)
s_down == Str(<<"d","o","w","n">>)
s_Null == Str(<<"N","u","l","l">>)
s_json_list == Str(<<"[","{","\"","a","\"",":","1","}","]">>)
s_json_object == Str(<<"{","\"","a","\"",":","1","}">>)
s_json_number == Str(<<"1">>)
s_not_json == Str(<<"i","-","1">>)

\* Records of the general run: typed and untyped, with and without account,
\* account name and region.
TypedRecords ==
    { Record([resourceType |-> t, accountId |-> a, accountName |-> n, region |-> r]) :
        t \in {T_S3Bucket, T_Lambda},
        a \in {Absent, a1},
        n \in {Absent, name1},
        r \in {Absent, s_global, region1} }

\* Records without a usable resourceType, bare or carrying every other field.
UntypedRecords ==
    { Record([resourceType |-> t, accountId |-> a1, accountName |-> name1,
              region |-> region1, instanceState |-> s_running,
              volumeId |-> vol1, status |-> s_available,
              state |-> s_available, connectionState |-> s_available,
              bgpAllUp |-> Bool(TRUE), hasLifecycleRules |-> Bool(TRUE),
              hasExposedIngressPorts |-> Bool(TRUE), engine |-> name1]) :
        t \in {Absent, None, s_empty} }
    \cup { Record([resourceType |-> t, accountId |-> Absent]) :
             t \in {Absent, None, s_empty} }

\* One record of every resource type the code names, and of one it does not.
ResourceTypes ==
    { T_EC2Instance, T_RDSInstance, T_S3Bucket, T_EBSVolume, T_ElasticIP,
      T_SecurityGroup, T_EBSSnapshot, T_AMI, T_VPC, T_Subnet, T_EFSFileSystem,
      T_FSxFileSystem, T_BackupPlan, T_BackupVault, T_BackupRecoveryPoint,
      T_DirectConnectConnection, T_DirectConnectVirtualInterface,
      T_VPNConnection, T_TransitGateway, T_Lambda }

EveryTypeRecords ==
    { Record([resourceType |-> t, accountId |-> a2, region |-> region2,
              state |-> st]) :
        t \in ResourceTypes, st \in {Absent, s_available} }

Regions == {s_empty, region1, region2}

\* EBS volumes of a run: records that share a dedup key or differ in it
\* (by volumeId, by id when volumeId is missing, by accountId), and a few
\* shapes of the state and of the attachments.
EbsKeyFields ==
    { [volumeId |-> vol1, id |-> Absent, accountId |-> Absent],
      [volumeId |-> vol2, id |-> vol1, accountId |-> Absent],
      [volumeId |-> Absent, id |-> vol1, accountId |-> Absent],
      [volumeId |-> vol1, id |-> Absent, accountId |-> a1],
      [volumeId |-> Absent, id |-> Absent, accountId |-> Absent] }

EbsRecords ==
    { Record([resourceType |-> T_EBSVolume, volumeId |-> kf.volumeId,
              id |-> kf.id, accountId |-> kf.accountId, status |-> st,
              attachments |-> at]) :
        kf \in EbsKeyFields,
        st \in {Absent, s_Available},
        at \in {Absent, List(<<>>), s_json_object, List(<<attachment>>)} }

\* EBS volumes fed to a new accumulator: the four state fields and the three
\* attachment fields in the shapes _as_list_or_none tells apart.
EbsAttachmentValues ==
    { Absent, None, List(<<>>), List(<<attachment>>), attachment,
      s_empty, s_brackets, s_Null, s_json_list, s_json_object, s_json_number,
      s_not_json }

EbsShapeRecords ==
    { Record([resourceType |-> T_EBSVolume, volumeId |-> vol1, status |-> st,
              state |-> st2, volumeStatus |-> st3, volumeState |-> st4,
              attachments |-> at, attachedInstances |-> at2,
              attached_instances |-> at3]) :
        st \in {Absent, s_Available, s_in_use_hyphen, s_deleting, s_blank},
        st2 \in {Absent, s_in_use},
        st3 \in {Absent, s_available},
        st4 \in {Absent, s_available_padded},
        at \in EbsAttachmentValues,
        at2 \in {Absent, List(<<>>), List(<<attachment>>)},
        at3 \in {Absent, List(<<>>), s_brackets} }

\* Direct Connect virtual interfaces: every combination of the two flags,
\* the three status strings and the peers.
Peer(status, state) ==
    Dict(SelectSeq(<<[key |-> "bgpStatus", val |-> status],
                     [key |-> "bgpPeerState", val |-> state]>>,
                   LAMBDA e : e.val # Absent))

VifPeersValues ==
    { Absent, s_up, List(<<>>),
      List(<<Peer(s_up, Absent)>>),
      List(<<Peer(s_down, s_available)>>),
      List(<<Peer(Absent, s_Available)>>),
      List(<<Peer(Absent, s_down)>>),
      List(<<Peer(s_down, Absent), Peer(Str(<<" ","U","P"," ">>), Absent)>>),
      List(<<s_up, Peer(Absent, s_available)>>),
      List(<<Peer(s_blank, s_available)>>),
      List(<<Peer(s_down, Absent), Peer(None, s_down)>>) }

VifRecords ==
    { Record([resourceType |-> T_DirectConnectVirtualInterface,
              bgpAllUp |-> au, bgpAnyUp |-> an, bgpStatus |-> st,
              bgpStatusIpv4 |-> s4, bgpStatusIpv6 |-> s6, bgpPeers |-> pe]) :
        au \in {Absent, Bool(TRUE), Bool(FALSE), s_up},
        an \in {Absent, Bool(TRUE), Bool(FALSE)},
        st \in {Absent, Str(<<" ","U","P"," ">>), s_down, s_blank},
        s4 \in {Absent, s_up, s_down},
        s6 \in {Absent, Str(<<"U","p">>), s_down},
        pe \in VifPeersValues }

\* EC2 instances: the instance states and SSM statuses the classification
\* tells apart.
Ec2Records ==
    { Record([resourceType |-> T_EC2Instance, instanceState |-> st,
              ssmStatus |-> ssm]) :
        st \in {Absent, Str(<<"R","u","n","n","i","n","g">>), Str(<<"r","u","n","n","i","n","g"," ">>), s_stopped},
        ssm \in {Absent, s_empty, Str(<<"O","n","l","i","n","e">>), Str(<<"C","O","N","N","E","C","T","E","D">>), Str(<<"N","o","t","I","n","s","t","a","l","l","e","d">>),
                 Str(<<"C","o","n","n","e","c","t","i","o","n","L","o","s","t">>), Str(<<" ","o","n","l","i","n","e">>)} }

\* ------------------------------------------------------------------------
\* Specifications
\* ------------------------------------------------------------------------

\* A run of one accumulator over records of a few types.
Next ==
    \/ \E item \in TypedRecords \cup UntypedRecords : AddResource(item)
    \/ FeedFresh(EveryTypeRecords)
    \/ \E region \in Regions : AddCollectedRegion(region)
    \/ Reset
    \/ GetMetrics

Spec == Init /\ [][Next]_vars

\* A run over EBS volumes.
NextEbs ==
    \/ \E item \in EbsRecords : AddResource(item)
    \/ FeedFresh(EbsShapeRecords)
    \/ Reset

SpecEbs == Init /\ [][NextEbs]_vars

\* Virtual interfaces fed after the first one.
VifFollowUps ==
    { Record([resourceType |-> T_DirectConnectVirtualInterface,
              bgpAllUp |-> au, bgpAnyUp |-> Absent, bgpPeers |-> pe]) :
        au \in {Absent, Bool(FALSE)},
        pe \in { List(<<Peer(s_up, Absent)>>),
                 List(<<Peer(s_down, s_available)>>) } }

\* A run over Direct Connect virtual interfaces: every shape as the first
\* record, a few shapes after it.
NextVif ==
    \/ FeedFresh(VifRecords)
    \/ \E item \in VifFollowUps : op # "__init__" /\ AddResource(item)

SpecVif == Init /\ [][NextVif]_vars

\* EC2 instances: the patch compliance values the classification tells
\* apart, on instances that run and on instances that do not.
Ec2PatchRecords ==
    { Record([resourceType |-> T_EC2Instance, instanceState |-> st,
              patchCompliance |-> pc]) :
        st \in {Absent, s_running, s_stopped},
        pc \in {Absent, s_empty, Str(<<"C","o","m","p","l","i","a","n","t">>),
                Str(<<" ","N","O","N","_","C","O","M","P","L","I","A","N","T"," ">>),
                s_noncompliant,
                Str(<<"n","o","n","-","c","o","m","p","l","i","a","n","t">>)} }

\* A run over EC2 instances.
NextEc2 ==
    \/ \E item \in Ec2Records \cup Ec2PatchRecords : AddResource(item)
    \/ Reset
    \/ GetMetrics

SpecEc2 == Init /\ [][NextEc2]_vars

\* Network resources, healthy and not, and S3 buckets with and without
\* lifecycle rules.
DerivedRecords ==
    { Record([resourceType |-> t, state |-> st, connectionState |-> st,
              bgpStatus |-> IF st = s_Available THEN s_up ELSE st]) :
        t \in { T_DirectConnectConnection, T_DirectConnectVirtualInterface,
                T_VPNConnection, T_TransitGateway },
        st \in {Absent, s_Available, s_down} }
    \cup { Record([resourceType |-> T_S3Bucket, hasLifecycleRules |-> lc]) :
             lc \in {Absent, Bool(TRUE), Bool(FALSE)} }

\* A run over the resources that the derived fields of a snapshot count.
NextDerived ==
    \/ \E item \in DerivedRecords : AddResource(item)
    \/ Reset
    \/ GetMetrics

SpecDerived == Init /\ [][NextDerived]_vars

\* Records of three accounts, named or not, in two regions.
DistributionRecords ==
    { Record([resourceType |-> T_S3Bucket, accountId |-> a, accountName |-> n,
              region |-> r]) :
        a \in {a1, a2, Str(<<"a","3">>)},
        n \in {Absent, name1},
        r \in {region1, region2} }

\* A run over accounts and regions.
NextDistribution ==
    \/ \E item \in DistributionRecords : AddResource(item)
    \/ Reset
    \/ GetMetrics

SpecDistribution == Init /\ [][NextDistribution]_vars

\* EC2 instances with the two CloudWatch agent flags set, unset or missing,
\* in a few states and health statuses, and RDS instances of two engines.
InstanceRecords ==
    { Record([resourceType |-> T_EC2Instance, instanceState |-> s_running,
              cwAgentMemoryDetected |-> memory, cwAgentDiskDetected |-> disk]) :
        memory \in {Bool(FALSE), Bool(TRUE)}, disk \in {None, Bool(TRUE)} }
      \cup { Record([resourceType |-> T_EC2Instance, instanceState |-> st,
                     cwAgentMemoryDetected |-> flag, cwAgentDiskDetected |-> flag,
                     healthStatus |-> health]) :
               st \in {Absent, s_stopped, Text("Running")},
               flag \in {Absent, Bool(TRUE)},
               health \in {None, Text("Healthy")} }
      \cup { Record([resourceType |-> T_RDSInstance, engine |-> engine]) :
               engine \in {Absent, Text("mysql"), Text("postgres")} }

\* A run over EC2 and RDS instances.
NextInstances ==
    \/ \E item \in InstanceRecords : AddResource(item)
    \/ Reset
    \/ GetMetrics

SpecInstances == Init /\ [][NextInstances]_vars

\* Records of two accounts under two names, an empty name or none, typed
\* or not.
NameRecords ==
    { Record([resourceType |-> t, accountId |-> a, accountName |-> n]) :
        t \in {Absent, T_S3Bucket},
        a \in {Absent, a1, a2},
        n \in {Absent, s_empty, name1, Text("Dev")} }

\* A run over account names.
NextNames ==
    \/ \E item \in NameRecords : AddResource(item)
    \/ Reset

SpecNames == Init /\ [][NextNames]_vars

\* The characters keys are made of: letters, a digit, the underscore and
\* two characters that are neither.
KeyAlphabet == {"a", "Z", "7", "_", " ", "!"}

\* The strings over KeyAlphabet of length n at most.
RECURSIVE KeyStrings(_)
KeyStrings(n) ==
    IF n = 0 THEN {<<>>}
    ELSE KeyStrings(n - 1)
           \cup {Append(text, ch) : text \in KeyStrings(n - 1), ch \in KeyAlphabet}

s_My_Key == Str(<<"M","y"," ","K","e","y","!">>)

FlatKeys ==
    {Str(text) : text \in KeyStrings(MaxKeyLen)}
      \cup {None, s_My_Key, PyInt(0), PyInt(12), Bool(TRUE)}

\* _sanitize_flat_key on every key within the bounds.
NextKey == \E key \in FlatKeys : SanitizeFlatKey(key)

SpecKey == Init /\ [][NextKey]_vars

\* Trees to flatten: scalars, dicts and lists of them, and dicts and lists
\* of those, lists in lists and dicts in lists included.

k_a == Str(<<"a">>)
k_b_c == Str(<<"b"," ","c">>)
k_a_0 == Str(<<"a","_","0">>)
v_x == Str(<<"x">>)

FlatLeaves == {PyInt(97), v_x, None}

FlatInner ==
    {Dict(<<>>), List(<<>>)}
      \cup {Dict(<<Entry(key, leaf)>>) : key \in {k_a, k_b_c}, leaf \in {PyInt(97), v_x}}
      \cup {List(<<leaf>>) : leaf \in {PyInt(97), v_x}}
      \cup {List(<<first, second>>) : first \in {PyInt(97), v_x},
                                      second \in {PyInt(97), v_x}}

FlatMiddle ==
    FlatLeaves \cup FlatInner
      \cup {Dict(<<Entry(k_a, inner)>>) : inner \in FlatInner}
      \cup {List(<<inner>>) : inner \in FlatInner}
      \cup {List(<<PyInt(7), inner>>) : inner \in FlatInner}

SsmAgentExample ==
    Dict(<<Entry(Str(<<"s","s","m","A","g","e","n","t">>),
                 Dict(<<Entry(Str(<<"c","o","n","n","e","c","t","e","d">>), PyInt(97)),
                        Entry(Str(<<"n","o","t","C","o","n","n","e","c","t","e","d">>),
                              PyInt(7))>>))>>)

FlatData ==
    {None, Dict(<<>>), SsmAgentExample}
      \cup {Dict(<<Entry(key, middle)>>) : key \in {k_a, k_b_c, None}, middle \in FlatMiddle}
      \cup {Dict(<<Entry(k_a, middle), Entry(key, other)>>) :
               middle \in FlatMiddle, key \in {k_b_c, k_a_0},
               other \in {PyInt(7), List(<<v_x>>)}}

FlatTargets == {EmptyDict, <<Entry(Str(<<"p","_","a">>), PyInt(1))>>}

FlatPrefixes == {s_empty, Str(<<"p">>)}

\* Records of a run with resets: EBS volumes of two keys, unattached and
\* attached, and a VPN connection with its account and region.
ResetRecords ==
    { Record([resourceType |-> T_EBSVolume, volumeId |-> v, status |-> s_Available,
              attachments |-> at]) :
        v \in {vol1, vol2}, at \in {Absent, List(<<attachment>>)} }
      \cup { Record([resourceType |-> T_VPNConnection, accountId |-> a1,
                     accountName |-> name1, region |-> region1,
                     state |-> s_available]) }

\* A run of one accumulator that is reset and used again: any record of any
\* type first, then the records above, regions, resets and snapshots.
NextReset ==
    \/ FeedFresh(EveryTypeRecords \cup Ec2Records \cup Ec2PatchRecords)
    \/ \E item \in ResetRecords : AddResource(item)
    \/ \E region \in Regions : AddCollectedRegion(region)
    \/ Reset
    \/ GetMetrics

SpecReset == Init /\ [][NextReset]_vars

\* flatten_metric on every tree, target and prefix above.
NextFlatten ==
    \E target \in FlatTargets, data \in FlatData, prefix \in FlatPrefixes :
        FlattenMetric(target, data, prefix)

SpecFlatten == Init /\ [][NextFlatten]_vars

\* save_metrics_to_dynamodb on a snapshot get_metrics returned and on dicts
\* of the same sections with a part missing or of another shape.
metrics_empty ==
    Dict(<<>>)

metrics_collected ==
    Dict(<<
        Entry(Text("global"), Dict(<<
            Entry(Text("totalResources"), PyInt(6)),
            Entry(Text("resourceCounts"), Dict(<<
                Entry(Text("EC2Instance"), PyInt(2)),
                Entry(Text("RDSInstance"), PyInt(1)),
                Entry(Text("S3Bucket"), PyInt(1)),
                Entry(Text("VPNConnection"), PyInt(1)),
                Entry(Text("SecurityGroup"), PyInt(1)) >>)),
            Entry(Text("accountDistribution"), List(<<Dict(<<
                Entry(Text("accountId"), Text("a1")),
                Entry(Text("accountName"), Text("prod")),
                Entry(Text("count"), PyInt(3)) >>), Dict(<<
                Entry(Text("accountId"), Text("a2")),
                Entry(Text("accountName"), Text("a2")),
                Entry(Text("count"), PyInt(3)) >>)>>)),
            Entry(Text("regionDistribution"), List(<<Dict(<<
                Entry(Text("region"), Text("us-east-1")),
                Entry(Text("count"), PyInt(3)) >>), Dict(<<
                Entry(Text("region"), Text("sa-east-1")),
                Entry(Text("count"), PyInt(2)) >>)>>)),
            Entry(Text("regionsCollected"), PyInt(1)),
            Entry(Text("resourceRegionsFound"), PyInt(2)),
            Entry(Text("networkHealth"), Dict(<<
                Entry(Text("directConnectConnections"), Dict(<<
                    Entry(Text("total"), PyInt(0)),
                    Entry(Text("healthy"), PyInt(0)),
                    Entry(Text("unhealthy"), PyInt(0)),
                    Entry(Text("healthyPercentage"), PyInt(0)) >>)),
                Entry(Text("directConnectVirtualInterfaces"), Dict(<<
                    Entry(Text("total"), PyInt(0)),
                    Entry(Text("healthy"), PyInt(0)),
                    Entry(Text("unhealthy"), PyInt(0)),
                    Entry(Text("healthyPercentage"), PyInt(0)) >>)),
                Entry(Text("vpnConnections"), Dict(<<
                    Entry(Text("total"), PyInt(1)),
                    Entry(Text("healthy"), PyInt(1)),
                    Entry(Text("unhealthy"), PyInt(0)),
                    Entry(Text("healthyPercentage"), PyInt(100)) >>)),
                Entry(Text("transitGateways"), Dict(<<
                    Entry(Text("total"), PyInt(0)),
                    Entry(Text("healthy"), PyInt(0)),
                    Entry(Text("unhealthy"), PyInt(0)),
                    Entry(Text("healthyPercentage"), PyInt(0)) >>)) >>)) >>)),
        Entry(Text("ec2"), Dict(<<
            Entry(Text("total"), PyInt(2)),
            Entry(Text("byState"), Dict(<<
                Entry(Text("running"), PyInt(1)),
                Entry(Text("stopped"), PyInt(1)) >>)),
            Entry(Text("healthStatus"), Dict(<<
                Entry(Text("Unknown"), PyInt(2)) >>)),
            Entry(Text("cloudwatchAgent"), Dict(<<
                Entry(Text("memoryMonitoring"), PyInt(0)),
                Entry(Text("diskMonitoring"), PyInt(0)),
                Entry(Text("bothEnabled"), PyInt(0)),
                Entry(Text("noneEnabled"), PyInt(1)),
                Entry(Text("percentageWithMemory"), PyInt(0)),
                Entry(Text("percentageWithDisk"), PyInt(0)) >>)),
            Entry(Text("ssmAgent"), Dict(<<
                Entry(Text("connected"), PyInt(0)),
                Entry(Text("notConnected"), PyInt(0)),
                Entry(Text("notInstalled"), PyInt(1)),
                Entry(Text("percentageConnected"), PyInt(0)) >>)),
            Entry(Text("patchCompliance"), Dict(<<
                Entry(Text("compliant"), PyInt(0)),
                Entry(Text("nonCompliant"), PyInt(0)),
                Entry(Text("unknown"), PyInt(2)),
                Entry(Text("percentageCompliant"), PyInt(0)) >>)) >>)),
        Entry(Text("rds"), Dict(<<
            Entry(Text("total"), PyInt(1)),
            Entry(Text("available"), PyInt(0)),
            Entry(Text("engines"), Dict(<<
                Entry(Text("mysql"), PyInt(1)) >>)),
            Entry(Text("multiAZ"), PyInt(0)),
            Entry(Text("performanceInsights"), PyInt(0)),
            Entry(Text("percentageMultiAZ"), PyInt(0)),
            Entry(Text("percentageWithPerfInsights"), PyInt(0)) >>)),
        Entry(Text("storage"), Dict(<<
            Entry(Text("s3Buckets"), PyInt(1)),
            Entry(Text("s3WithLifecycle"), PyInt(1)),
            Entry(Text("s3WithoutLifecycle"), PyInt(0)),
            Entry(Text("ebsVolumes"), PyInt(0)),
            Entry(Text("ebsSnapshots"), PyInt(0)),
            Entry(Text("amiSnapshots"), PyInt(0)),
            Entry(Text("efsFileSystems"), PyInt(0)),
            Entry(Text("fsxFileSystems"), PyInt(0)),
            Entry(Text("backupPlans"), PyInt(0)),
            Entry(Text("backupVaults"), PyInt(0)),
            Entry(Text("backupRecoveryPoints"), PyInt(0)) >>)),
        Entry(Text("unattached"), Dict(<<
            Entry(Text("unattachedEBSVolumes"), PyInt(0)),
            Entry(Text("unassociatedElasticIPs"), PyInt(0)) >>)),
        Entry(Text("security"), Dict(<<
            Entry(Text("securityGroups"), PyInt(1)),
            Entry(Text("exposedSecurityGroups"), PyInt(1)),
            Entry(Text("percentageExposed"), PyInt(100)) >>)),
        Entry(Text("network"), Dict(<<
            Entry(Text("directConnectConnections"), Dict(<<
                Entry(Text("total"), PyInt(0)),
                Entry(Text("healthy"), PyInt(0)),
                Entry(Text("unhealthy"), PyInt(0)),
                Entry(Text("healthyPercentage"), PyInt(0)) >>)),
            Entry(Text("directConnectVirtualInterfaces"), Dict(<<
                Entry(Text("total"), PyInt(0)),
                Entry(Text("healthy"), PyInt(0)),
                Entry(Text("unhealthy"), PyInt(0)),
                Entry(Text("healthyPercentage"), PyInt(0)) >>)),
            Entry(Text("vpnConnections"), Dict(<<
                Entry(Text("total"), PyInt(1)),
                Entry(Text("healthy"), PyInt(1)),
                Entry(Text("unhealthy"), PyInt(0)),
                Entry(Text("healthyPercentage"), PyInt(100)) >>)),
            Entry(Text("transitGateways"), Dict(<<
                Entry(Text("total"), PyInt(0)),
                Entry(Text("healthy"), PyInt(0)),
                Entry(Text("unhealthy"), PyInt(0)),
                Entry(Text("healthyPercentage"), PyInt(0)) >>)) >>)) >>)

metrics_odd ==
    Dict(<<
        Entry(Text("global"), Dict(<<
            Entry(Text("totalResources"), PyInt(1)),
            Entry(Text("networkHealth"), Dict(<<
                Entry(Text("vpn connection!"), Dict(<<
                    Entry(Text("healthy %"), PyInt(1)),
                    Entry(Text("total"), PyInt(1)) >>)),
                Entry(Text("skipped"), PyInt(3)) >>)) >>)),
        Entry(Text("ec2"), Dict(<<
            Entry(Text("total"), PyInt(1)),
            Entry(Text("patchCompliance"), Dict(<<
                Entry(Text("compliant"), Bool(TRUE)) >>)),
            Entry(Text("ssm"), Dict(<<
                Entry(Text("unknown"), PyInt(7)) >>)) >>)),
        Entry(Text("rds"), Dict(<<
            Entry(Text("total"), PyInt(0)) >>)) >>)

metrics_no_global ==
    Dict(<<
        Entry(Text("global"), None),
        Entry(Text("ec2"), Dict(<<>>)),
        Entry(Text("storage"), Dict(<<
            Entry(Text("s3Buckets"), PyInt(2)) >>)) >>)

SavedMetrics == {metrics_empty, metrics_collected, metrics_odd, metrics_no_global}

\* the table handles a list of metrics tables is made of
Tables == {"t1", "t2"}

SeqsUpTo(S, n) == UNION {[1..k -> S] : k \in 0..n}

\* a batch write raises, or returns the count of the items it wrote
WriteOutcomes ==
    {[raises |-> TRUE, count |-> 0]}
      \cup {[raises |-> FALSE, count |-> count] : count \in {1, 2}}

\* whole seconds of processing
Durations == {PyInt(0), PyInt(12)}

\* the days the clock shows
Timestamps == {[year |-> 2025, month |-> 9, day |-> 24],
               [year |-> 2026, month |-> 1, day |-> 5]}

\* Every list of tables and every outcome of its writes, for one snapshot;
\* every snapshot, duration and day, for no table, one table and two.
NextSave ==
    \/ \E metrics_tables \in SeqsUpTo(Tables, MaxTables) :
         \E outcomes \in [1..Len(metrics_tables) -> WriteOutcomes] :
             SaveMetrics(metrics_tables, metrics_empty, PyInt(0),
                         [year |-> 2025, month |-> 9, day |-> 24], outcomes)
    \/ \E metrics \in SavedMetrics, processing_duration \in Durations,
          timestamp \in Timestamps :
         \E metrics_tables \in {<<>>, <<"t1">>, <<"t1", "t2">>} :
             \E outcomes \in [1..Len(metrics_tables) -> WriteOutcomes] :
                 SaveMetrics(metrics_tables, metrics, processing_duration,
                             timestamp, outcomes)

SpecSave == Init /\ [][NextSave]_vars

\* _safe_pct on every pair within the bounds.
InitPct ==
    /\ Constructed
    /\ numer \in 0..MaxNumer
    /\ denom \in 0..MaxDenom
    /\ pct = 0
    /\ ret = None

NextPct == ApplySafePct

SpecPct == InitPct /\ [][NextPct]_vars

\* ------------------------------------------------------------------------
\* Properties
\* ------------------------------------------------------------------------

\* The last operation fed a record of type t.
Fed(t) == op = "add_resource" /\ Get(arg, "resourceType") = t

\* By how much the last operation raised ebs_unattached.
EbsRaise == acc.ebs_unattached - pre.ebs_unattached

StateKeys == {"status", "state", "volumeStatus", "volumeState"}

\* C1: each EBS dedup key contributes at most 1 to ebs_unattached: a record
\* whose key was seen before leaves the counter alone, a record never raises
\* it by more than 1, and the counter never exceeds the number of keys seen.
C1_EbsKeyCountedOnce ==
    /\ acc.ebs_unattached <= Cardinality(acc._seen_ebs)
    /\ Fed(T_EBSVolume) =>
          /\ EbsRaise \in {0, 1}
          /\ acc._seen_ebs = pre._seen_ebs \cup {EbsKey(arg)}
          /\ EbsKey(arg) \in pre._seen_ebs => EbsRaise = 0

\* C1 witness: a record that would count as unattached is fed again under a
\* key already counted, and the counter stays at 1.
C1_Witness ==
    /\ Fed(T_EBSVolume)
    /\ EbsKey(arg) \in pre._seen_ebs
    /\ EbsUnattached(arg)
    /\ pre.ebs_unattached = 1
    /\ acc.ebs_unattached = 1

\* C2 as claimed: a first-seen EBS record without state fields whose
\* attachments is the native empty list (the other two attachment fields
\* absent) raises ebs_unattached by 1, and with a one-element list it does not.
C2_EmptyAttachmentsCounted ==
    ( /\ Fed(T_EBSVolume)
      /\ EbsKey(arg) \notin pre._seen_ebs
      /\ DOMAIN arg \cap StateKeys = {}
      /\ "attachments" \in DOMAIN arg
      /\ DOMAIN arg \cap {"attachedInstances", "attached_instances"} = {} )
    => /\ arg.attachments = List(<<>>) => EbsRaise = 1
       /\ arg.attachments = List(<<attachment>>) => EbsRaise = 0

\* The attachment value the code looks at: the first truthy one of the three
\* fields, else the last.
ChosenAttachments(item) ==
    Or(Or(Get(item, "attachments"), Get(item, "attachedInstances")),
       Get(item, "attached_instances"))

\* A string is JSON text of a list.
IsJsonList(x) == JsonLoads(StrStrip(x.s)).ok /\ JsonLoads(StrStrip(x.s)).kind = "list"

\* A string the code takes as a spelling of "nothing": '', none, null, [].
IsEmptyMarker(x) ==
    Str(StrLower(StrStrip(x.s))) \in {s_empty, s_none, s_null, s_brackets}

\* C3 as claimed: an EBS record with no usable state that carries a non-empty
\* attachment (a non-empty list, a single object) or a string that does not
\* parse as a list is not counted as unattached.
C3_OnlyKnownEmptyCounted ==
    ( /\ Fed(T_EBSVolume)
      /\ \A key \in StateKeys : ~Truthy(_normalize_state(Get(arg, key)))
      /\ LET v == ChosenAttachments(arg)
         IN  \/ IsList(v) /\ Len(v.l) > 0
             \/ IsDict(v)
             \/ IsStr(v) /\ ~IsEmptyMarker(v) /\ ~IsJsonList(v) )
    => EbsRaise = 0

\* By how much the last operation raised the two counters of the
\* directConnectVirtualInterfaces bucket.
VifTotalRaise ==
    acc.network_health.directConnectVirtualInterfaces.total
        - pre.network_health.directConnectVirtualInterfaces.total

VifHealthyRaise ==
    acc.network_health.directConnectVirtualInterfaces.healthy
        - pre.network_health.directConnectVirtualInterfaces.healthy

OnePeerUp == List(<<Peer(s_up, Absent)>>)

\* C4 as claimed: a virtual interface with bgpAllUp=false and
\* bgpPeers=[{"bgpStatus":"up"}] raises both total and healthy of its bucket.
C4_FalseFlagPeersUpHealthy ==
    ( /\ Fed(T_DirectConnectVirtualInterface)
      /\ Get(arg, "bgpAllUp") = Bool(FALSE)
      /\ Get(arg, "bgpPeers") = OnePeerUp )
    => VifTotalRaise = 1 /\ VifHealthyRaise = 1

\* C4 amended: a virtual interface with bgpAllUp=false is classified
\* unhealthy whatever its peers say, bgpPeers=[{"bgpStatus":"up"}] included:
\* add_resource raises total by 1 and leaves healthy alone.
C4_FalseFlagUnhealthy ==
    ( /\ Fed(T_DirectConnectVirtualInterface)
      /\ Get(arg, "bgpAllUp") = Bool(FALSE) )
    => VifTotalRaise = 1 /\ VifHealthyRaise = 0

\* C4 witness: bgpAllUp=false and one peer that is up, nothing else set;
\* counted, and not as healthy.
C4_Witness ==
    /\ Fed(T_DirectConnectVirtualInterface)
    /\ DOMAIN arg = {"resourceType", "bgpAllUp", "bgpPeers"}
    /\ arg.bgpAllUp = Bool(FALSE)
    /\ arg.bgpPeers = OnePeerUp
    /\ VifTotalRaise = 1
    /\ VifHealthyRaise = 0

\* The status field is non-empty after normalization.
HasStatus(item, key) == Truthy(_normalize_state(Get(item, key)))

IsUp(item, key) == _normalize_state(Get(item, key)) = s_up

\* C5: the verdict on a virtual interface is bgpAllUp when that is a boolean;
\* else bgpAnyUp when that is a boolean; else whether the first non-empty of
\* bgpStatus, bgpStatusIpv4, bgpStatusIpv6 is 'up'; the peers matter only
\* when none of these decides.
C5_VerdictPriority ==
    Fed(T_DirectConnectVirtualInterface) =>
        /\ VifTotalRaise = 1
        /\ VifHealthyRaise \in {0, 1}
        /\ LET healthy == VifHealthyRaise = 1
               bgp_all_up == Get(arg, "bgpAllUp")
               bgp_any_up == Get(arg, "bgpAnyUp")
           IN  IF IsBool(bgp_all_up) THEN healthy = bgp_all_up.b
               ELSE IF IsBool(bgp_any_up) THEN healthy = bgp_any_up.b
               ELSE IF HasStatus(arg, "bgpStatus") THEN healthy = IsUp(arg, "bgpStatus")
               ELSE IF HasStatus(arg, "bgpStatusIpv4")
                    THEN healthy = IsUp(arg, "bgpStatusIpv4")
               ELSE IF HasStatus(arg, "bgpStatusIpv6")
                    THEN healthy = IsUp(arg, "bgpStatusIpv6")
               ELSE TRUE

\* C5 witness: bgpAllUp=true wins over bgpAnyUp=false, a status that is down
\* and peers that are not up.
C5_Witness ==
    /\ Fed(T_DirectConnectVirtualInterface)
    /\ Get(arg, "bgpAllUp") = Bool(TRUE)
    /\ Get(arg, "bgpAnyUp") = Bool(FALSE)
    /\ Get(arg, "bgpStatus") = s_down
    /\ Get(arg, "bgpPeers") = List(<<Peer(Absent, s_down)>>)
    /\ VifHealthyRaise = 1

\* Neither flag is a boolean and no status string is non-empty.
NoFlagDecides(item) ==
    /\ ~IsBool(Get(item, "bgpAllUp"))
    /\ ~IsBool(Get(item, "bgpAnyUp"))
    /\ \A key \in {"bgpStatus", "bgpStatusIpv4", "bgpStatusIpv6"} :
           ~HasStatus(item, key)

\* A peer on its own: by its bgpStatus when that is non-empty, else by its
\* bgpPeerState.
PeerHealthy(peer) ==
    /\ IsDict(peer)
    /\ LET peer_status == _normalize_state(Lookup(peer.l, "bgpStatus", None))
           peer_state == _normalize_state(Lookup(peer.l, "bgpPeerState", None))
       IN  IF Truthy(peer_status) THEN peer_status = s_up
           ELSE peer_state = s_available

\* C6: when no flag and no status string decides, a virtual interface is
\* healthy iff bgpPeers is a list holding at least one healthy peer, where a
\* peer with a non-empty bgpStatus is healthy iff that is 'up' and a peer
\* without one is healthy iff its bgpPeerState is 'available'.
C6_HealthyIffSomePeerHealthy ==
    ( Fed(T_DirectConnectVirtualInterface) /\ NoFlagDecides(arg) ) =>
        LET peers == Get(arg, "bgpPeers")
        IN  /\ VifTotalRaise = 1
            /\ (VifHealthyRaise = 1) <=>
                   ( /\ IsList(peers)
                     /\ \E i \in 1..Len(peers.l) : PeerHealthy(peers.l[i]) )

\* C6 witness: the first peer's status is down, the second one's is up; the
\* first is skipped and the interface is healthy.
C6_Witness ==
    /\ Fed(T_DirectConnectVirtualInterface)
    /\ NoFlagDecides(arg)
    /\ Get(arg, "bgpPeers") =
           List(<<Peer(s_down, Absent), Peer(Str(<<" ","U","P"," ">>), Absent)>>)
    /\ VifHealthyRaise = 1

\* By how much the last operation raised resource_counts[t].
CountRaise(t) ==
    Lookup(acc.resource_counts, t, 0) - Lookup(pre.resource_counts, t, 0)

\* C7: totalResources as get_metrics reports it is the sum of resource_counts
\* and the number of records with a non-empty resourceType fed since the
\* last reset; each such record raises the count of its own type by exactly 1
\* and no other count, whether or not the type has a processor.
C7_TotalIsTypedRecords ==
    /\ SumValues(acc.resource_counts) = hist.typed
    /\ op = "get_metrics" =>
          /\ snapshot.global.totalResources = SumValues(acc.resource_counts)
          /\ snapshot.global.totalResources = hist.typed
    /\ (op = "add_resource" /\ Truthy(Get(arg, "resourceType"))) =>
          \A t \in ResourceTypes :
              CountRaise(t) = IF t = Get(arg, "resourceType") THEN 1 ELSE 0

\* C7 witness: get_metrics after typed records, one of a type without a
\* processor, and a record without a type; the total is the number of typed
\* records.
C7_Witness ==
    /\ op = "get_metrics"
    /\ hist.typed = 2
    /\ hist.calls = 3
    /\ Lookup(acc.resource_counts, T_Lambda, 0) = 1
    /\ snapshot.global.totalResources = 2

\* C8: add_resource with a record whose resourceType is absent, None or
\* empty leaves the whole accumulator as it was, whatever else the record
\* carries.
C8_UntypedLeavesStateAlone ==
    (op = "add_resource" /\ ~Truthy(Get(arg, "resourceType"))) => acc = pre

\* C8 witness: a record with an empty resourceType and every other field
\* set, fed to an accumulator that has already counted something.
C8_Witness ==
    /\ op = "add_resource"
    /\ Get(arg, "resourceType") = s_empty
    /\ Get(arg, "accountId") = a1
    /\ Get(arg, "volumeId") = vol1
    /\ hist.typed > 0
    /\ acc = pre

\* round(x / d) for integers x >= 0 and d > 0, computed exactly, a tie going
\* to the even neighbour.
ExactRound(x, d) ==
    LET q == x \div d
        r == x % d
    IN  IF 2 * r < d THEN q
        ELSE IF 2 * r > d THEN q + 1
        ELSE IF q % 2 = 0 THEN q ELSE q + 1

\* C9 as claimed: _safe_pct(n, d) is round(100*n/d) for d > 0 and 0 for d = 0.
C9_SafePctIsExactRound ==
    op = "_safe_pct" =>
        pct = IF denom = 0 THEN 0 ELSE ExactRound(100 * numer, denom)

\* By how much the last operation raised a counter of the accumulator.
Raise(counter) == acc[counter] - pre[counter]

\* C10: an EC2 record touches the SSM counters only when its lowercased
\* instanceState is exactly 'running', and then raises exactly one of them by
\* 1: connected for 'connected' or 'online' in any case, notInstalled for
\* 'notinstalled' or nothing, notConnected for the rest; so the three always
\* add up to ec2_running.
C10_SsmOnlyWhileRunning ==
    /\ acc.ec2_ssm_connected + acc.ec2_ssm_notconnected + acc.ec2_ssm_notinstalled
           = acc.ec2_running
    /\ Fed(T_EC2Instance) =>
          LET state == Str(StrLower(Or(Get(arg, "instanceState"), s_unknown).s))
              ssm == Str(StrLower(Or(Get(arg, "ssmStatus"), s_empty).s))
              class == IF state # s_running THEN "none"
                       ELSE IF ssm \in {s_connected, s_online}
                            THEN "ec2_ssm_connected"
                       ELSE IF ssm \in {s_notinstalled, s_empty}
                            THEN "ec2_ssm_notinstalled"
                       ELSE "ec2_ssm_notconnected"
          IN  \A counter \in {"ec2_ssm_connected", "ec2_ssm_notconnected",
                              "ec2_ssm_notinstalled"} :
                  Raise(counter) = IF counter = class THEN 1 ELSE 0

\* C10 witness: a running instance (state 'Running') with ssmStatus 'Online'
\* is counted as connected, after an instance that is not running.
C10_Witness ==
    /\ Fed(T_EC2Instance)
    /\ Get(arg, "instanceState") = Str(<<"R","u","n","n","i","n","g">>)
    /\ Get(arg, "ssmStatus") = Str(<<"O","n","l","i","n","e">>)
    /\ Raise("ec2_ssm_connected") = 1
    /\ acc.ec2_total > acc.ec2_running
    /\ acc.ec2_running = 1

\* C11: every EC2 record, running or not, raises exactly one patch
\* compliance counter by 1: compliant for 'compliant', nonCompliant for
\* 'noncompliant' or 'non_compliant', unknown for the rest and for nothing,
\* after trim and lowercase; so the three always add up to ec2_total.
C11_OnePatchCounterPerInstance ==
    /\ acc.ec2_patch_compliant + acc.ec2_patch_noncompliant + acc.ec2_patch_unknown
           = acc.ec2_total
    /\ Fed(T_EC2Instance) =>
          LET patch == Str(StrLower(StrStrip(
                           Or(Get(arg, "patchCompliance"), s_Unknown).s)))
              class == IF patch = s_compliant THEN "ec2_patch_compliant"
                       ELSE IF patch \in {s_noncompliant, s_non_compliant}
                            THEN "ec2_patch_noncompliant"
                       ELSE "ec2_patch_unknown"
          IN  /\ Raise("ec2_total") = 1
              /\ \A counter \in {"ec2_patch_compliant", "ec2_patch_noncompliant",
                                 "ec2_patch_unknown"} :
                     Raise(counter) = IF counter = class THEN 1 ELSE 0

\* C11 witness: a stopped instance whose patchCompliance is ' NON_COMPLIANT '
\* is counted as nonCompliant.
C11_Witness ==
    /\ Fed(T_EC2Instance)
    /\ Get(arg, "instanceState") = s_stopped
    /\ Get(arg, "patchCompliance") =
           Str(<<" ","N","O","N","_","C","O","M","P","L","I","A","N","T"," ">>)
    /\ Raise("ec2_patch_noncompliant") = 1
    /\ acc.ec2_running = 0

\* C12: in the snapshot get_metrics returns, ec2 is there iff ec2_total > 0
\* and rds is there iff rds_total > 0, None otherwise; global, storage,
\* unattached, security and network are there always, on a new or reset
\* accumulator too.
C12_SectionsPresent ==
    op = "get_metrics" =>
        /\ DOMAIN snapshot = {"global", "ec2", "rds", "storage", "unattached",
                              "security", "network"}
        /\ (snapshot.ec2 # None) <=> (acc.ec2_total > 0)
        /\ (snapshot.rds # None) <=> (acc.rds_total > 0)
        /\ \A section \in {"global", "storage", "unattached", "security", "network"} :
               snapshot[section] # None

\* C12 witness: a snapshot with an ec2 section and without an rds section.
C12_Witness ==
    /\ op = "get_metrics"
    /\ acc.ec2_total > 0
    /\ acc.rds_total = 0
    /\ snapshot.ec2 # None
    /\ snapshot.rds = None
    /\ snapshot.unattached # None

NetworkBuckets ==
    {"directConnectConnections", "directConnectVirtualInterfaces",
     "vpnConnections", "transitGateways"}

\* C13: the derived fields of a snapshot agree with the raw counters: every
\* network health bucket has healthy + unhealthy = total and storage has
\* s3WithLifecycle + s3WithoutLifecycle = s3Buckets, because healthy <= total
\* and s3_with_lifecycle <= s3_total in every state.
C13_DerivedFieldsAgree ==
    /\ DOMAIN acc.network_health = NetworkBuckets
    /\ \A key \in NetworkBuckets :
           acc.network_health[key].healthy <= acc.network_health[key].total
    /\ acc.s3_with_lifecycle <= acc.s3_total
    /\ op = "get_metrics" =>
          /\ DOMAIN snapshot.network = NetworkBuckets
          /\ snapshot.global.networkHealth = snapshot.network
          /\ \A key \in NetworkBuckets :
                 LET bucket == snapshot.network[key]
                 IN  /\ bucket.total = acc.network_health[key].total
                     /\ bucket.healthy = acc.network_health[key].healthy
                     /\ bucket.healthy + bucket.unhealthy = bucket.total
          /\ snapshot.storage.s3Buckets = acc.s3_total
          /\ snapshot.storage.s3WithLifecycle + snapshot.storage.s3WithoutLifecycle
                 = snapshot.storage.s3Buckets

\* C13 witness: a snapshot with a bucket that holds a healthy and an
\* unhealthy resource, and an S3 bucket without lifecycle rules.
C13_Witness ==
    /\ op = "get_metrics"
    /\ \E key \in NetworkBuckets :
           /\ snapshot.network[key].healthy = 1
           /\ snapshot.network[key].unhealthy = 1
    /\ snapshot.storage.s3WithLifecycle = 0
    /\ snapshot.storage.s3WithoutLifecycle = 1

\* The distribution dist lists every key of counts once with its count, the
\* higher count first and, of two equal counts, the key set first in counts
\* first. field names the key in the entries of dist.
OrderedByCount(dist, counts, field) ==
    /\ Len(dist) = Len(counts)
    /\ \A i \in 1..Len(counts) :
           \E j \in 1..Len(dist) :
               /\ dist[j][field] = counts[i].key
               /\ dist[j].count = counts[i].val
               /\ \A k \in 1..Len(dist) : dist[k][field] = counts[i].key => k = j
    /\ \A j, k \in 1..Len(dist) :
           j < k =>
               \/ dist[j].count > dist[k].count
               \/ /\ dist[j].count = dist[k].count
                  /\ IndexOf(counts, dist[j][field]) < IndexOf(counts, dist[k][field])

\* A record that counts for key leaves the keys of the histogram in the
\* order they had and puts a key not seen before last.
KeptFirstSeenOrder(before, after, key) ==
    /\ \A i \in 1..Len(before) : after[i].key = before[i].key
    /\ Len(after) = IF HasKey(before, key) THEN Len(before) ELSE Len(before) + 1
    /\ after[Len(after)].key = key \/ HasKey(before, key)

\* C14: accountDistribution lists every account of account_counts once, by
\* count descending, accounts of equal count in the order in which
\* add_resource first saw them, each with the name recorded for it or else
\* its id; regionDistribution is ordered the same way.
C14_DistributionsOrdered ==
    /\ (op = "add_resource" /\ Truthy(Get(arg, "resourceType"))
          /\ Truthy(Get(arg, "accountId"))) =>
          KeptFirstSeenOrder(pre.account_counts, acc.account_counts,
                             Get(arg, "accountId"))
    /\ (op = "add_resource" /\ Truthy(Get(arg, "resourceType"))
          /\ Truthy(Get(arg, "region")) /\ Get(arg, "region") # s_global) =>
          KeptFirstSeenOrder(pre.region_counts, acc.region_counts,
                             Get(arg, "region"))
    /\ op = "get_metrics" =>
          LET accounts == snapshot.global.accountDistribution
              regions == snapshot.global.regionDistribution
          IN  /\ OrderedByCount(accounts, acc.account_counts, "accountId")
              /\ OrderedByCount(regions, acc.region_counts, "region")
              /\ \A j \in 1..Len(accounts) :
                     accounts[j].accountName =
                         IF HasKey(acc.account_names, accounts[j].accountId)
                         THEN Lookup(acc.account_names, accounts[j].accountId, None)
                         ELSE accounts[j].accountId

\* C14 witness: three accounts of equal count are listed in the order in
\* which they were first seen (a2, a1, a3), the first under its id for want
\* of a name, the second under its name; the region fed twice comes first
\* although it was seen second.
C14_Witness ==
    /\ op = "get_metrics"
    /\ Len(snapshot.global.accountDistribution) = 3
    /\ acc.account_counts[1].key = a2
    /\ acc.account_counts[2].key = a1
    /\ snapshot.global.accountDistribution[1].accountId = a2
    /\ snapshot.global.accountDistribution[1].accountName = a2
    /\ snapshot.global.accountDistribution[2].accountId = a1
    /\ snapshot.global.accountDistribution[2].accountName = name1
    /\ snapshot.global.accountDistribution[3].count = 1
    /\ acc.region_counts[1].key = region1
    /\ snapshot.global.regionDistribution[1].region = region2
    /\ snapshot.global.regionDistribution[1].count = 2

\* The positions of text that hold an alphanumeric character.
AlnumPositions(text) == {i \in 1..Len(text) : IsAlnum(text[i])}

\* C19: _sanitize_flat_key returns a non-empty string of alphanumeric
\* characters and underscores that neither starts nor ends with an
\* underscore: 'unknown' for None, and else the text of the key from its
\* first to its last alphanumeric character with every other character but
\* the underscore replaced by an underscore, or 'value' when there is no
\* such character; "My Key!" gives "My_Key".
C19_SanitizedKeyShape ==
    op = "_sanitize_flat_key" =>
        /\ IsStr(ret)
        /\ Len(ret.s) > 0
        /\ \A i \in 1..Len(ret.s) : IsAlnum(ret.s[i]) \/ ret.s[i] = "_"
        /\ ret.s[1] # "_"
        /\ ret.s[Len(ret.s)] # "_"
        /\ IsNone(arg) => ret = s_unknown
        /\ arg = s_My_Key => ret = Str(<<"M","y","_","K","e","y">>)
        /\ IsStr(arg) =>
              LET kept == AlnumPositions(arg.s)
              IN  IF kept = {} THEN ret = s_value
                  ELSE LET first == CHOOSE i \in kept : \A j \in kept : i <= j
                           last == CHOOSE i \in kept : \A j \in kept : j <= i
                       IN  /\ Len(ret.s) = last - first + 1
                           /\ \A i \in first..last :
                                  ret.s[i - first + 1] =
                                      IF i \in kept \/ arg.s[i] = "_"
                                      THEN arg.s[i] ELSE "_"

\* C19 witness: a key with an underscore kept inside, and a space in front
\* and a '!' behind that are replaced and then trimmed.
C19_Witness ==
    /\ op = "_sanitize_flat_key"
    /\ arg = Str(<<" ", "a", "!">>)
    /\ ret = Str(<<"a">>)

\* The scalar leaves below the value v, each with the flat key of its path:
\* key, then the sanitized keys and the list indices on the way down, joined
\* with underscores.
RECURSIVE PathLeaves(_, _)
PathLeaves(v, key) ==
    IF IsDict(v)
    THEN UNION { PathLeaves(v.l[i].val,
                     Str(key.s \o <<"_">> \o _sanitize_flat_key(v.l[i].key).s)) :
                 i \in 1..Len(v.l) }
    ELSE IF IsList(v)
    THEN UNION { PathLeaves(v.l[i], Str(key.s \o <<"_">> \o Decimal(i - 1))) :
                 i \in 1..Len(v.l) }
    ELSE {[key |-> key, val |-> v]}

\* The scalar leaves of the mapping data under the optional prefix.
TreeLeaves(data, prefix) ==
    IF ~IsDict(data) THEN {}
    ELSE UNION { PathLeaves(data.l[i].val,
                     LET first == _sanitize_flat_key(data.l[i].key)
                     IN  IF prefix = s_empty THEN first
                         ELSE Str(prefix.s \o <<"_">> \o first.s)) :
                 i \in 1..Len(data.l) }

KeysOf(d) == {d[i].key : i \in 1..Len(d)}

\* C18: flatten_metric puts every scalar leaf of the tree under the key made
\* of the prefix, the sanitized keys and the list indices on its path, joined
\* with underscores, at any depth, and nothing else: the keys of the result
\* are those of the target and of the leaves, a leaf that shares its key with
\* no other leaf is found under it, and an entry of the target that no leaf
\* writes to is kept.  {"ssmAgent": {"connected": 97, "notConnected": 7}}
\* gives exactly {"ssmAgent_connected": 97, "ssmAgent_notConnected": 7}.
C18_FlattenByPath ==
    op = "flatten_metric" =>
        LET leaves == TreeLeaves(arg.data, arg.prefix)
        IN  /\ KeysOf(ret) = KeysOf(arg.target) \cup {leaf.key : leaf \in leaves}
            /\ \A i, j \in 1..Len(ret) : ret[i].key = ret[j].key => i = j
            /\ \A leaf \in leaves :
                   (\A other \in leaves : other.key = leaf.key => other = leaf)
                       => ret[IndexOf(ret, leaf.key)].val = leaf.val
            /\ \A i \in 1..Len(arg.target) :
                   (\A leaf \in leaves : leaf.key # arg.target[i].key)
                       => ret[IndexOf(ret, arg.target[i].key)].val = arg.target[i].val
            /\ (arg.data = SsmAgentExample /\ arg.prefix = s_empty
                  /\ arg.target = EmptyDict) =>
                   ret = << Entry(Str(<<"s","s","m","A","g","e","n","t","_",
                                        "c","o","n","n","e","c","t","e","d">>), PyInt(97)),
                            Entry(Str(<<"s","s","m","A","g","e","n","t","_",
                                        "n","o","t","C","o","n","n","e","c","t","e","d">>),
                                  PyInt(7)) >>

\* C18 witness: under the prefix 'p', a list under the key 'b c' that holds
\* a scalar and a list: the scalar goes to p_b_c_0 and the inner list's
\* element to p_b_c_1_0, after the entry the target already had.
C18_Witness ==
    /\ op = "flatten_metric"
    /\ arg.prefix = Str(<<"p">>)
    /\ arg.data = Dict(<<Entry(k_b_c, List(<<PyInt(7), List(<<v_x>>)>>))>>)
    /\ ret = << Entry(Str(<<"p","_","a">>), PyInt(1)),
                Entry(Str(<<"p","_","b","_","c","_","0">>), PyInt(7)),
                Entry(Str(<<"p","_","b","_","c","_","1","_","0">>), v_x) >>

\* The last operation was a call of save_metrics_to_dynamodb.
Saved == op = "save_metrics_to_dynamodb"

\* C15: save_metrics_to_dynamodb calls the batch write exactly once for
\* every table of metrics_tables, in list order, each time with that one
\* table and the same two items, the current one and the dated one; a write
\* that raises stops none of the writes after it and the function returns.
C15_OneWritePerTable ==
    Saved =>
        /\ ret # Raised
        /\ Len(written) = Len(arg.metrics_tables)
        /\ \A i \in 1..Len(written) :
              /\ written[i].tables = <<arg.metrics_tables[i]>>
              /\ Len(written[i].items) = 2
              /\ written[i].items = written[1].items
              /\ Lookup(written[i].items[1], Text("id"), None)
                    = Text("METRIC_DASHBOARD_CURRENT")
              /\ Lookup(written[i].items[2], Text("isArchive"), None) = Bool(TRUE)

\* C15 witness: three tables, the write to the second one raises, and the
\* third table is written to all the same.
C15_Witness ==
    /\ Saved
    /\ arg.metrics_tables = <<"t1", "t2", "t1">>
    /\ arg.outcomes[2].raises
    /\ ~arg.outcomes[3].raises
    /\ Len(written) = 3
    /\ written[3].tables = <<"t1">>

\* The writes that returned.
Succeeded(outcomes) == {i \in 1..Len(outcomes) : ~outcomes[i].raises}

\* C16: save_metrics_to_dynamodb returns the count the last write that
\* succeeded returned, not a sum over the tables, and 0 when there is no
\* table or every write fails.
C16_LastSuccessfulCount ==
    Saved =>
        LET ok == Succeeded(arg.outcomes)
            last == CHOOSE i \in ok : \A j \in ok : j <= i
        IN  ret = IF ok = {} THEN PyInt(0) ELSE PyInt(arg.outcomes[last].count)

\* C16 witness: the first write returns 2, the second 1 and the third
\* raises; the result is 1, neither the sum nor 0.
C16_Witness ==
    /\ Saved
    /\ Len(arg.outcomes) = 3
    /\ ~arg.outcomes[1].raises /\ arg.outcomes[1].count = 2
    /\ ~arg.outcomes[2].raises /\ arg.outcomes[2].count = 1
    /\ arg.outcomes[3].raises
    /\ ret = PyInt(1)

\* two decimal digits of a day or a month
TwoDigits(n) == Decimal(n \div 10) \o Decimal(n % 10)

\* the keys in which the two items are meant to differ
IdentityKeys == {Text("id"), Text("isLatest"), Text("isArchive")}

\* C17: the current item and the dated item agree on every field except id,
\* isLatest and isArchive: the current item has the id
\* METRIC_DASHBOARD_CURRENT, the dated item the id
\* METRICS_DASHBOARD_<DD_MM_YYYY>, isLatest false and isArchive true, and
\* every other key of either item is in the other with the same value.
C17_ItemsAgree ==
    Saved /\ written # <<>> =>
        LET current == written[1].items[1]
            dated == written[1].items[2]
            day == arg.timestamp
        IN  /\ Lookup(current, Text("id"), None) = Text("METRIC_DASHBOARD_CURRENT")
            /\ Lookup(dated, Text("id"), None)
                  = Str(Chars("METRICS_DASHBOARD_") \o TwoDigits(day.day) \o <<"_">>
                          \o TwoDigits(day.month) \o <<"_">> \o Decimal(day.year))
            /\ Lookup(dated, Text("isLatest"), None) = Bool(FALSE)
            /\ Lookup(dated, Text("isArchive"), None) = Bool(TRUE)
            /\ \A key \in (KeysOf(current) \cup KeysOf(dated)) \ IdentityKeys :
                  /\ HasKey(current, key)
                  /\ HasKey(dated, key)
                  /\ Lookup(current, key, None) = Lookup(dated, key, None)

\* C17 witness: the items of a snapshot with an EC2 section and network
\* health, written on 5 January 2026: the dated item carries the flattened
\* fields, the EC2 state map and the network health fields of the current one.
C17_Witness ==
    /\ Saved
    /\ written # <<>>
    /\ arg.metrics = metrics_collected
    /\ Lookup(written[1].items[2], Text("id"), None)
          = Text("METRICS_DASHBOARD_05_01_2026")
    /\ HasKey(written[1].items[1], Text("ec2_byState"))
    /\ Lookup(written[1].items[2], Text("ec2_byState"), None)
          = DictGet(DictGet(metrics_collected, "ec2", None), "byState", None)
    /\ Lookup(written[1].items[2], Text("networkHealth_vpnConnections_total"), None)
          = PyInt(1)
    /\ Lookup(written[1].items[2], Text("storage_s3Buckets"), None) = PyInt(1)

\* the fields of the accumulator that are mappings, and those that are sets
MappingFields ==
    {"resource_counts", "account_counts", "region_counts", "account_names",
     "ec2_states", "ec2_health", "rds_engines"}

SetFields == {"regions_collected", "_seen_ebs"}

\* All counters 0, all mappings and sets empty, and network_health holding
\* exactly the four buckets at 0/0.
IsFresh(self) ==
    /\ \A f \in MappingFields : self[f] = EmptyDict
    /\ \A f \in SetFields : self[f] = {}
    /\ DOMAIN self.network_health = NetworkBuckets
    /\ \A b \in NetworkBuckets :
          self.network_health[b] = [total |-> 0, healthy |-> 0]
    /\ \A f \in DOMAIN self \ (MappingFields \cup SetFields \cup {"network_health"}) :
          self[f] = 0

\* C20: whatever was fed before, reset() leaves the accumulator in the state
\* of a newly constructed one: all counters 0, all mappings and sets empty,
\* _seen_ebs included, network_health with its four buckets at 0/0.  The
\* snapshot taken right after it is that of a new instance, and an EBS
\* record whose key was seen before the reset is evaluated again: its key is
\* the only one seen and it counts as unattached if it is.
C20_ResetStartsAfresh ==
    [][ /\ op' = "reset" => IsFresh(acc') /\ IsFresh(reset)
        /\ (op = "reset" /\ op' = "get_metrics") =>
              snapshot' = get_metrics(reset)
        /\ ( /\ op = "reset"
             /\ op' = "add_resource"
             /\ Get(arg', "resourceType") = T_EBSVolume
             /\ EbsKey(arg') \in pre._seen_ebs ) =>
              /\ acc'._seen_ebs = {EbsKey(arg')}
              /\ acc'.ebs_unattached = IF EbsUnattached(arg') THEN 1 ELSE 0
      ]_vars

\* C20 witness: a reset after an unattached EBS volume was counted and a
\* region marked: the key seen and the region are gone and the counter is 0.
C20_Witness ==
    /\ op = "reset"
    /\ pre.ebs_unattached = 1
    /\ pre._seen_ebs # {}
    /\ pre.regions_collected # {}
    /\ acc._seen_ebs = {}
    /\ acc.regions_collected = {}
    /\ acc.ebs_unattached = 0

\* the four state keys of an EBS record, in the order they are read
StateKeyOrder == <<"status", "state", "volumeStatus", "volumeState">>

\* The state keys of a record whose value is non-empty once normalized.
StatedKeys(item) ==
    {i \in 1..Len(StateKeyOrder) :
        Truthy(_normalize_state(Get(item, StateKeyOrder[i])))}

\* C21: for a first-seen EBS volume the state is the first non-empty
\* normalized value among status, state, volumeStatus and volumeState, and
\* when there is one it decides alone: 'available' raises ebs_unattached by 1
\* even with an attachment listed, 'in-use', 'in_use' and any other state
\* leave it alone even with an empty attachments list.
C21_StateDecides ==
    ( /\ Fed(T_EBSVolume)
      /\ EbsKey(arg) \notin pre._seen_ebs
      /\ StatedKeys(arg) # {} ) =>
        LET first == CHOOSE i \in StatedKeys(arg) : \A j \in StatedKeys(arg) : i <= j
            state == _normalize_state(Get(arg, StateKeyOrder[first]))
        IN  EbsRaise = IF state = s_available THEN 1 ELSE 0

\* C21 witness: status is blank, state is missing, volumeStatus is
\* 'available' and an attachment is listed: the volume is counted.
C21_Witness ==
    /\ Fed(T_EBSVolume)
    /\ EbsKey(arg) \notin pre._seen_ebs
    /\ Get(arg, "status") = s_blank
    /\ "state" \notin DOMAIN arg
    /\ Get(arg, "volumeStatus") = s_available
    /\ Get(arg, "attachments") = List(<<attachment>>)
    /\ EbsRaise = 1

\* 1 if the record counts as unattached when it is the first of its key.
Verdict(item) == IF EbsUnattached(item) THEN 1 ELSE 0

\* C22: the unattached verdict of an EBS key is that of the first record
\* fed with it.  When a first-seen EBS record is followed by another record
\* of the same key, the second changes nothing, whatever it says: the two
\* raise ebs_unattached by the verdict of the first, and fed in the other
\* order they raise it by the verdict of the second.
C22_FirstRecordDecides ==
    [][ ( /\ Fed(T_EBSVolume)
          /\ EbsKey(arg) \notin pre._seen_ebs
          /\ op' = "add_resource"
          /\ Get(arg', "resourceType") = T_EBSVolume
          /\ EbsKey(arg') = EbsKey(arg) ) =>
            /\ acc'.ebs_unattached = acc.ebs_unattached
            /\ acc'._seen_ebs = acc._seen_ebs
            /\ acc'.ebs_unattached = pre.ebs_unattached + Verdict(arg)
            /\ add_resource(add_resource(pre, arg'), arg).ebs_unattached
                  = pre.ebs_unattached + Verdict(arg')
      ]_vars

\* C22 witness: a key already seen with nothing counted, then a record of
\* that key whose state is 'available': the counter stays at 0, although the
\* same record fed first to a new accumulator is counted.
C22_Witness ==
    /\ Fed(T_EBSVolume)
    /\ hist.calls = 2
    /\ pre._seen_ebs = {EbsKey(arg)}
    /\ pre.ebs_unattached = 0
    /\ _normalize_state(Get(arg, "status")) = s_available
    /\ acc.ebs_unattached = 0
    /\ add_resource(reset, arg).ebs_unattached = 1

Min(a, b) == IF a <= b THEN a ELSE b

\* The last operation took a snapshot with an EC2 section.
Ec2Snapshot == op = "get_metrics" /\ acc.ec2_total > 0

\* C24: cloudwatchAgent.noneEnabled of a snapshot is the number of running
\* EC2 instances fed since the last reset whose two CloudWatch agent flags
\* were both falsy.
C24_NoneEnabledCountsNeither ==
    Ec2Snapshot => snapshot.ec2.cloudwatchAgent.noneEnabled = hist.neither

\* What get_metrics reports instead: running - max(memory, disk) is the
\* number of running instances with neither flag plus the smaller of the
\* number with the memory flag only and the number with the disk flag only.
NoneEnabledOvercounts ==
    Ec2Snapshot =>
        LET memory_only == acc.ec2_cw_memory - acc.ec2_cw_both
            disk_only == acc.ec2_cw_disk - acc.ec2_cw_both
        IN  /\ snapshot.ec2.cloudwatchAgent.noneEnabled
                  = hist.neither + Min(memory_only, disk_only)
            /\ acc.ec2_running
                  = hist.neither + memory_only + disk_only + acc.ec2_cw_both

\* Two running instances, one with the memory flag only and one with the
\* disk flag only: noneEnabled is 1 although no instance had neither flag.
MixedFlagsSnapshot ==
    /\ Ec2Snapshot
    /\ acc.ec2_running = 2
    /\ acc.ec2_cw_memory = 1
    /\ acc.ec2_cw_disk = 1
    /\ acc.ec2_cw_both = 0
    /\ hist.neither = 0
    /\ snapshot.ec2.cloudwatchAgent.noneEnabled = 1

\* C25: in every state the histograms agree with the totals: the values of
\* ec2_states and of ec2_health each sum to ec2_total, the values of
\* rds_engines sum to rds_total, the 'running' and 'stopped' entries of
\* ec2_states are ec2_running and ec2_stopped, and
\* ec2_cw_both <= min(ec2_cw_memory, ec2_cw_disk) <= ec2_running <= ec2_total.
C25_HistogramsMatchTotals ==
    /\ SumValues(acc.ec2_states) = acc.ec2_total
    /\ SumValues(acc.ec2_health) = acc.ec2_total
    /\ SumValues(acc.rds_engines) = acc.rds_total
    /\ Lookup(acc.ec2_states, s_running, 0) = acc.ec2_running
    /\ Lookup(acc.ec2_states, s_stopped, 0) = acc.ec2_stopped
    /\ acc.ec2_cw_both <= Min(acc.ec2_cw_memory, acc.ec2_cw_disk)
    /\ Min(acc.ec2_cw_memory, acc.ec2_cw_disk) <= acc.ec2_running
    /\ acc.ec2_running <= acc.ec2_total

\* C25 witness: a running instance with both agent flags, an instance that
\* is not running and a database have been fed.
C25_Witness ==
    /\ op = "add_resource"
    /\ acc.ec2_total = 2
    /\ acc.ec2_running = 1
    /\ acc.ec2_cw_both = 1
    /\ Len(acc.ec2_states) = 2
    /\ Len(acc.ec2_health) >= 1
    /\ acc.rds_total = 1
    /\ Len(acc.rds_engines) = 1

\* The scalar leaves below the value v in the order in which flatten_metric
\* walks them, each with the flat key of its path; LeavesFrom is the part
\* from the n-th entry or element of v on.
RECURSIVE LeafPaths(_, _)
RECURSIVE LeavesFrom(_, _, _)
LeafPaths(v, key) ==
    IF IsDict(v) \/ IsList(v) THEN LeavesFrom(v, key, 1)
    ELSE <<[key |-> key, val |-> v]>>

LeavesFrom(v, key, n) ==
    IF n > Len(v.l) THEN <<>>
    ELSE LET below == IF IsDict(v)
                      THEN LeafPaths(v.l[n].val,
                               Str(key.s \o <<"_">> \o _sanitize_flat_key(v.l[n].key).s))
                      ELSE LeafPaths(v.l[n], Str(key.s \o <<"_">> \o Decimal(n - 1)))
         IN  below \o LeavesFrom(v, key, n + 1)

\* The leaf paths of the mapping data flattened without a prefix, from its
\* n-th entry on.
RECURSIVE TopLeavesFrom(_, _)
TopLeavesFrom(data, n) ==
    IF ~IsDict(data) \/ n > Len(data.l) THEN <<>>
    ELSE LeafPaths(data.l[n].val, _sanitize_flat_key(data.l[n].key))
            \o TopLeavesFrom(data, n + 1)

\* The last operation flattened a tree into an empty target, no prefix.
FlattenedAlone ==
    op = "flatten_metric" /\ arg.target = EmptyDict /\ arg.prefix = s_empty

\* C26: flatten_metric loses no leaf: flattened into an empty target, a tree
\* gives as many keys as it has scalar leaves, two distinct leaf paths never
\* giving the same flat key.
C26_OneKeyPerLeaf ==
    FlattenedAlone =>
        LET paths == TopLeavesFrom(arg.data, 1)
        IN  /\ Len(ret) = Len(paths)
            /\ \A i, j \in 1..Len(paths) : paths[i].key = paths[j].key => i = j

\* C26 as the code has it: flattened into an empty target, a tree gives one
\* key for every distinct flat key of its leaf paths, holding the value of
\* the last leaf walked with that key, so never more keys than leaves and
\* as many exactly when no two leaf paths share their flat key.
C26_OneKeyPerFlatKey ==
    FlattenedAlone =>
        LET paths == TopLeavesFrom(arg.data, 1)
            last(key) == CHOOSE i \in 1..Len(paths) :
                             /\ paths[i].key = key
                             /\ \A j \in (i + 1)..Len(paths) : paths[j].key # key
        IN  /\ KeysOf(ret) = {paths[i].key : i \in 1..Len(paths)}
            /\ \A i, j \in 1..Len(ret) : ret[i].key = ret[j].key => i = j
            /\ \A i \in 1..Len(ret) : ret[i].val = paths[last(ret[i].key)].val
            /\ Len(ret) <= Len(paths)
            /\ Len(ret) = Len(paths)
                  <=> \A i, j \in 1..Len(paths) : paths[i].key = paths[j].key => i = j

\* C26 witness: {'a': ['x'], 'a_0': 7} has two leaves, the element 0 of the
\* list under 'a' and the value under 'a_0'; both go to the key a_0 and the
\* result has that one key, with the value walked last.
C26_Witness ==
    /\ FlattenedAlone
    /\ arg.data = Dict(<<Entry(k_a, List(<<v_x>>)), Entry(k_a_0, PyInt(7))>>)
    /\ Len(TopLeavesFrom(arg.data, 1)) = 2
    /\ ret = <<Entry(k_a_0, PyInt(7))>>

====
